---- MODULE Spec2Model ----
(***************************************************************************)
(* p2p-share: the signaling server (src/unnamed/part_000, index.ts) and   *)
(* the client's AES-GCM encryption context (src/unnamed/part_004).         *)
(*                                                                         *)
(* Signaling server.  Node runs every event handler to completion, so     *)
(* each handler (connection, message, close) is one atomic action.  The   *)
(* ws library emits "close" once, with the socket's readyState already    *)
(* CLOSED; every other client record in the clients map holds an OPEN     *)
(* socket.  Client ids are 122-bit random UUIDs and are taken as fresh;   *)
(* room codes are the first 6 hex digits (24 bits) of a random UUID and   *)
(* may repeat.  sent, last and before record one turn of the event loop:  *)
(* the event handled, the maps as the handler found them and the frames   *)
(* it wrote; EndOfTurn hands the frames to the network and clears them.   *)
(***************************************************************************)
EXTENDS Integers, Sequences, FiniteSets, Bags, TLC

VARIABLES
    clients,        \* server: Map<clientId, Client{socket, roomId}>
    rooms,          \* server: Map<roomId, Room{id, clients, creatorId}>
    nextClientId,   \* server: number of connections accepted so far
    crashed,        \* server: the process died of an uncaught exception
    sent,           \* server: the frames the last handler wrote, in order
    last,           \* server: the event the last handler was run for
    before,         \* server: clients and rooms as that handler found them
    encKey,         \* per peer: EncryptionManager.key
    sessionId,      \* per peer: EncryptionManager.sessionId (4 bytes)
    counter,        \* per peer: EncryptionManager.counter
    nextKey,        \* number of AES keys generated so far
    keyOnWire,      \* ENCRYPTION_KEY messages on their way to the joiner
    ivLog,          \* bag of the (key, iv) pairs given to crypto.subtle.encrypt
    eng,            \* per peer: FileTransferManager, its pending promises and
                    \*   timers, the useFileTransfer refs, what the app was told
    channel,        \* per peer: its end of the RTCDataChannel: readyState,
                    \*   wire (messages it sent, not yet dispatched at the
                    \*   other end), drained (how many of them have left its
                    \*   send buffer), lowPending (a bufferedamountlow event
                    \*   is queued), txLog (every message it sent, in order)
    disk,           \* per peer: the files its user has yet to pick
    client          \* per browser tab: SignalingProvider and usePeerConnection
                    \*   (state, refs, socket, pending promises and events)

serverVars == <<clients, rooms, nextClientId, crashed, sent, last, before>>
cryptoVars == <<encKey, sessionId, counter, nextKey, keyOnWire, ivLog>>
engineVars == <<eng, channel, disk>>
clientVars == <<client>>
vars == <<serverVars, cryptoVars, engineVars, clientVars>>

(***************************************************************************)
(* Bounds of the model.                                                    *)
(***************************************************************************)
MaxConnections == 3     \* connections accepted over the server's life
MaxUuids == 2           \* distinct values randomUUID() returns for rooms
MaxSessionIds == 2      \* distinct values getRandomValues() fills sessionId with
MaxKeys == 2            \* AES keys generated
MaxChunks == 3          \* chunks one encryption context encrypts before a reset

(***************************************************************************)
(* JavaScript values.  null and undefined are the empty sequence, a       *)
(* present value v is <<v>>; a string is the sequence of its characters   *)
(* where the code looks inside it (room codes).                            *)
(***************************************************************************)
Null == <<>>
Some(v) == <<v>>

Remove(f, k) == [x \in DOMAIN f \ {k} |-> f[x]]
Put(f, k, v) == [x \in DOMAIN f \cup {k} |-> IF x = k THEN v ELSE f[x]]
EmptyMap == <<>>

UpperChar(ch) ==
    CASE ch = "a" -> "A" [] ch = "b" -> "B" [] ch = "c" -> "C"
      [] ch = "d" -> "D" [] ch = "e" -> "E" [] ch = "f" -> "F"
      [] OTHER -> ch

ToUpperCase(s) == [i \in 1..Len(s) |-> UpperChar(s[i])]

Substring(s, from, to) == SubSeq(s, from + 1, to)

\* crypto.randomUUID(): lowercase hex; only the first group is modelled.
UuidTable ==
    << <<"a", "1", "b", "2", "c", "3", "0", "0">>,
       <<"0", "f", "9", "e", "8", "d", "0", "0">>,
       <<"7", "7", "7", "7", "7", "7", "0", "0">>,
       <<"d", "e", "a", "d", "b", "e", "e", "f">> >>

RandomUUIDs == {UuidTable[i] : i \in 1..MaxUuids}

\* src/unnamed/part_000:33-36
generateRoomId(uuid) == ToUpperCase(Substring(uuid, 0, 6))

RoomCodes == {generateRoomId(u) : u \in RandomUUIDs}

\* What a client may put in join-room.roomId: a code as displayed, or the
\* same code typed in lower case.
TypedCodes == RoomCodes \cup {Substring(u, 0, 6) : u \in RandomUUIDs}

\* Sample payloads of the relayed messages.
Sdps == {"v=0 o=- 46117317 2 IN IP4 127.0.0.1"}

IceCandidates ==
    { [candidate |-> Some("candidate:1 1 udp 2122260223 192.0.2.1 54321 typ host"),
       sdpMid |-> Some("0"), sdpMLineIndex |-> Some(0)],
      [candidate |-> Some(""), sdpMid |-> Null, sdpMLineIndex |-> Null] }

(***************************************************************************)
(* Inbound frames (src/server/src/types.ts:3-40 and whatever else a       *)
(* socket can carry).                                                      *)
(* syntax: "malformed" is text JSON.parse rejects; "null" is the JSON     *)
(* value null; "scalar" a JSON number, string, boolean or array; "object" *)
(* a JSON object, whose members follow (absent members are Null).         *)
(***************************************************************************)
Frame(syntax, type, roomId, sdp, ice) ==
    [syntax |-> syntax, type |-> type, roomId |-> roomId, sdp |-> sdp,
     candidate |-> ice.candidate, sdpMid |-> ice.sdpMid,
     sdpMLineIndex |-> ice.sdpMLineIndex]

NoIce == [candidate |-> Null, sdpMid |-> Null, sdpMLineIndex |-> Null]

NoFrame == Frame("none", Null, Null, Null, NoIce)

AcceptedTypes ==
    {"create-room", "join-room", "leave-room", "offer", "answer", "ice-candidate"}

Frames ==
    {Frame("malformed", Null, Null, Null, NoIce),
     Frame("null", Null, Null, Null, NoIce),
     Frame("scalar", Null, Null, Null, NoIce),
     Frame("object", Null, Null, Null, NoIce),
     Frame("object", Some("ping"), Null, Null, NoIce),
     Frame("object", Some("create-room"), Null, Null, NoIce),
     Frame("object", Some("leave-room"), Null, Null, NoIce),
     Frame("object", Some("join-room"), Null, Null, NoIce)}
    \cup {Frame("object", Some("join-room"), Some(code), Null, NoIce) : code \in TypedCodes}
    \cup {Frame("object", Some(t), Null, Some(s), NoIce) : t \in {"offer", "answer"}, s \in Sdps}
    \cup {Frame("object", Some("ice-candidate"), Null, Null, i) : i \in IceCandidates}

(***************************************************************************)
(* Outbound frames (src/server/src/types.ts:42-99).                        *)
(***************************************************************************)
ConnectedMsg(clientId) == [type |-> "connected", clientId |-> clientId]
RoomCreatedMsg(roomId) == [type |-> "room-created", roomId |-> roomId]
RoomJoinedMsg(roomId, isInitiator) ==
    [type |-> "room-joined", roomId |-> roomId, isInitiator |-> isInitiator]
PeerJoinedMsg == [type |-> "peer-joined"]
PeerLeftMsg == [type |-> "peer-left"]
ErrorMsg(code, message) == [type |-> "error", code |-> code, message |-> message]
RelayedSdpMsg(type, sdp) == [type |-> type, sdp |-> sdp]
RelayedIceMsg(candidate, sdpMid, sdpMLineIndex) ==
    [type |-> "ice-candidate", candidate |-> candidate, sdpMid |-> sdpMid,
     sdpMLineIndex |-> sdpMLineIndex]

(***************************************************************************)
(* The handlers.  A handler takes and returns the server's state while it *)
(* runs: st.clients, st.rooms, st.out (frames written so far) and         *)
(* st.threw (an exception left the handler).                               *)
(***************************************************************************)
HandlerState(cs, rs) == [clients |-> cs, rooms |-> rs, out |-> <<>>, threw |-> FALSE]

\* src/unnamed/part_000:22-27
send(st, clientId, message) ==
    IF clientId \in DOMAIN st.clients /\ st.clients[clientId].readyState = "OPEN"
    THEN [st EXCEPT !.out = Append(@, [to |-> clientId, msg |-> message])]
    ELSE st

\* src/unnamed/part_000:29-31
sendError(st, clientId, code, message) == send(st, clientId, ErrorMsg(code, message))

\* getPeerInRoom that forgets to skip the excluded client.
getPeerInRoom_AnyMember(st, roomId, excludeClientId) ==
    IF roomId \notin DOMAIN st.rooms
    THEN Null
    ELSE IF st.rooms[roomId].clients = <<>>
         THEN Null
         ELSE Some(Head(st.rooms[roomId].clients))

\* src/unnamed/part_000:38-46: the first member, in insertion order, that is not the
\* excluded one.
getPeerInRoom(st, roomId, excludeClientId) ==
    IF roomId \notin DOMAIN st.rooms
    THEN Null
    ELSE LET others == SelectSeq(st.rooms[roomId].clients,
                                 LAMBDA id : id # excludeClientId)
         IN IF others = <<>> THEN Null ELSE Some(Head(others))

\* Set.prototype.add / delete on Room.clients (insertion ordered).
SetAdd(s, x) == IF \E i \in 1..Len(s) : s[i] = x THEN s ELSE Append(s, x)
SetDelete(s, x) == SelectSeq(s, LAMBDA y : y # x)
Members(room) == {room.clients[i] : i \in 1..Len(room.clients)}

\* handleCreateRoom without the ALREADY_IN_ROOM check.
handleCreateRoom_NoRoomCheck(st, clientId, uuid) ==
    IF clientId \notin DOMAIN st.clients
    THEN st
    ELSE LET roomId == generateRoomId(uuid)
             room == [id |-> roomId, clients |-> <<clientId>>, creatorId |-> clientId]
             st1 == [st EXCEPT !.rooms = Put(@, roomId, room),
                               !.clients[clientId].roomId = roomId]
         IN send(st1, clientId, RoomCreatedMsg(roomId))

\* src/unnamed/part_000:48-73
handleCreateRoom(st, clientId, uuid) ==
    IF clientId \notin DOMAIN st.clients
    THEN st
    ELSE IF st.clients[clientId].roomId # Null
    THEN sendError(st, clientId, "ALREADY_IN_ROOM",
                   "Leave current room before creating a new one")
    ELSE LET roomId == generateRoomId(uuid)
             room == [id |-> roomId, clients |-> <<clientId>>, creatorId |-> clientId]
             st1 == [st EXCEPT !.rooms = Put(@, roomId, room),
                               !.clients[clientId].roomId = roomId]
         IN send(st1, clientId, RoomCreatedMsg(roomId))

\* handleJoinRoom with the capacity test off by one (size > 2).
handleJoinRoom_FullAtThree(st, clientId, roomId) ==
    IF clientId \notin DOMAIN st.clients
    THEN st
    ELSE IF st.clients[clientId].roomId # Null
    THEN sendError(st, clientId, "ALREADY_IN_ROOM",
                   "Leave current room before joining another")
    ELSE IF roomId = Null
    THEN [st EXCEPT !.threw = TRUE]
    ELSE LET key == ToUpperCase(roomId[1]) IN
         IF key \notin DOMAIN st.rooms
         THEN sendError(st, clientId, "ROOM_NOT_FOUND",
                        "Room does not exist or has expired")
         ELSE IF Len(st.rooms[key].clients) > 2
         THEN sendError(st, clientId, "ROOM_FULL",
                        "Room already has two participants")
         ELSE LET room == st.rooms[key]
                  st1 == [st EXCEPT !.rooms[key].clients = SetAdd(@, clientId),
                                    !.clients[clientId].roomId = room.id]
                  st2 == send(st1, clientId, RoomJoinedMsg(room.id, FALSE))
                  peerId == getPeerInRoom(st2, room.id, clientId)
              IN IF peerId # Null THEN send(st2, peerId[1], PeerJoinedMsg) ELSE st2

\* handleJoinRoom that notifies the occupant before it answers the joiner.
handleJoinRoom_PeerFirst(st, clientId, roomId) ==
    IF clientId \notin DOMAIN st.clients
    THEN st
    ELSE IF st.clients[clientId].roomId # Null
    THEN sendError(st, clientId, "ALREADY_IN_ROOM",
                   "Leave current room before joining another")
    ELSE IF roomId = Null
    THEN [st EXCEPT !.threw = TRUE]
    ELSE LET key == ToUpperCase(roomId[1]) IN
         IF key \notin DOMAIN st.rooms
         THEN sendError(st, clientId, "ROOM_NOT_FOUND",
                        "Room does not exist or has expired")
         ELSE IF Len(st.rooms[key].clients) >= 2
         THEN sendError(st, clientId, "ROOM_FULL",
                        "Room already has two participants")
         ELSE LET room == st.rooms[key]
                  st1 == [st EXCEPT !.rooms[key].clients = SetAdd(@, clientId),
                                    !.clients[clientId].roomId = room.id]
                  peerId == getPeerInRoom(st1, room.id, clientId)
                  st2 == IF peerId # Null THEN send(st1, peerId[1], PeerJoinedMsg) ELSE st1
              IN send(st2, clientId, RoomJoinedMsg(room.id, FALSE))

\* src/unnamed/part_000:75-112.  roomId is the frame's roomId member: Null when the
\* frame has none, and then roomId.toUpperCase() throws a TypeError.
handleJoinRoom(st, clientId, roomId) ==
    IF clientId \notin DOMAIN st.clients
    THEN st
    ELSE IF st.clients[clientId].roomId # Null
    THEN sendError(st, clientId, "ALREADY_IN_ROOM",
                   "Leave current room before joining another")
    ELSE IF roomId = Null
    THEN [st EXCEPT !.threw = TRUE]
    ELSE LET key == ToUpperCase(roomId[1]) IN
         IF key \notin DOMAIN st.rooms
         THEN sendError(st, clientId, "ROOM_NOT_FOUND",
                        "Room does not exist or has expired")
         ELSE IF Len(st.rooms[key].clients) >= 2
         THEN sendError(st, clientId, "ROOM_FULL",
                        "Room already has two participants")
         ELSE LET room == st.rooms[key]
                  st1 == [st EXCEPT !.rooms[key].clients = SetAdd(@, clientId),
                                    !.clients[clientId].roomId = room.id]
                  st2 == send(st1, clientId, RoomJoinedMsg(room.id, FALSE))
                  peerId == getPeerInRoom(st2, room.id, clientId)
              IN IF peerId # Null THEN send(st2, peerId[1], PeerJoinedMsg) ELSE st2

\* handleLeaveRoom without the clean-up of empty rooms.
handleLeaveRoom_KeepsEmptyRoom(st, clientId) ==
    IF clientId \notin DOMAIN st.clients \/ st.clients[clientId].roomId = Null
    THEN st
    ELSE LET roomId == st.clients[clientId].roomId
             st3 == IF roomId \in DOMAIN st.rooms
                    THEN LET st1 == [st EXCEPT !.rooms[roomId].clients =
                                                   SetDelete(@, clientId)]
                             peerId == getPeerInRoom(st1, st1.rooms[roomId].id, clientId)
                         IN IF peerId # Null
                            THEN send(st1, peerId[1], PeerLeftMsg)
                            ELSE st1
                    ELSE st
         IN [st3 EXCEPT !.clients[clientId].roomId = Null]

\* handleLeaveRoom that answers a client outside any room with an error,
\* as relayToPeer does.
handleLeaveRoom_ErrorWhenOutside(st, clientId) ==
    IF clientId \notin DOMAIN st.clients \/ st.clients[clientId].roomId = Null
    THEN sendError(st, clientId, "NOT_IN_ROOM", "Not in a room")
    ELSE LET roomId == st.clients[clientId].roomId
             st3 == IF roomId \in DOMAIN st.rooms
                    THEN LET st1 == [st EXCEPT !.rooms[roomId].clients =
                                                   SetDelete(@, clientId)]
                             peerId == getPeerInRoom(st1, st1.rooms[roomId].id, clientId)
                             st2 == IF peerId # Null
                                    THEN send(st1, peerId[1], PeerLeftMsg)
                                    ELSE st1
                         IN IF Len(st2.rooms[roomId].clients) = 0
                            THEN [st2 EXCEPT !.rooms = Remove(@, st2.rooms[roomId].id)]
                            ELSE st2
                    ELSE st
         IN [st3 EXCEPT !.clients[clientId].roomId = Null]

\* src/unnamed/part_000:114-136
handleLeaveRoom(st, clientId) ==
    IF clientId \notin DOMAIN st.clients \/ st.clients[clientId].roomId = Null
    THEN st
    ELSE LET roomId == st.clients[clientId].roomId
             st3 == IF roomId \in DOMAIN st.rooms
                    THEN LET st1 == [st EXCEPT !.rooms[roomId].clients =
                                                   SetDelete(@, clientId)]
                             peerId == getPeerInRoom(st1, st1.rooms[roomId].id, clientId)
                             st2 == IF peerId # Null
                                    THEN send(st1, peerId[1], PeerLeftMsg)
                                    ELSE st1
                         IN IF Len(st2.rooms[roomId].clients) = 0
                            THEN [st2 EXCEPT !.rooms = Remove(@, st2.rooms[roomId].id)]
                            ELSE st2
                    ELSE st
         IN [st3 EXCEPT !.clients[clientId].roomId = Null]

\* src/unnamed/part_000:138-156
relayToPeer(st, clientId, message) ==
    IF clientId \notin DOMAIN st.clients \/ st.clients[clientId].roomId = Null
    THEN sendError(st, clientId, "NOT_IN_ROOM",
                   "Join a room before sending WebRTC messages")
    ELSE LET peerId == getPeerInRoom(st, st.clients[clientId].roomId, clientId) IN
         IF peerId = Null
         THEN sendError(st, clientId, "NO_PEER",
                        "No peer connected to relay message to")
         ELSE send(st, peerId[1], message)

\* JSON.parse(raw): throws on text that is not JSON.
JSONParse(raw) ==
    IF raw.syntax = "malformed"
    THEN [threw |-> TRUE, value |-> NoFrame]
    ELSE [threw |-> FALSE, value |-> raw]

\* message.type: a TypeError on null, undefined on a value without the member.
TypeOf(message) ==
    CASE message.syntax = "null" -> [threw |-> TRUE, type |-> Null]
      [] message.syntax = "object" -> [threw |-> FALSE, type |-> message.type]
      [] OTHER -> [threw |-> FALSE, type |-> Null]

\* src/unnamed/part_000:158-201
handleMessage(st, clientId, raw, uuid) ==
    LET parsed == JSONParse(raw) IN
    IF parsed.threw
    THEN sendError(st, clientId, "INVALID_JSON", "Message must be valid JSON")
    ELSE LET message == parsed.value
             t == TypeOf(message)
         IN IF t.threw THEN [st EXCEPT !.threw = TRUE]
            ELSE CASE t.type = Some("create-room") -> handleCreateRoom(st, clientId, uuid)
                   [] t.type = Some("join-room") -> handleJoinRoom(st, clientId, message.roomId)
                   [] t.type = Some("leave-room") -> handleLeaveRoom(st, clientId)
                   [] t.type = Some("offer") ->
                        relayToPeer(st, clientId, RelayedSdpMsg("offer", message.sdp))
                   [] t.type = Some("answer") ->
                        relayToPeer(st, clientId, RelayedSdpMsg("answer", message.sdp))
                   [] t.type = Some("ice-candidate") ->
                        relayToPeer(st, clientId,
                                    RelayedIceMsg(message.candidate, message.sdpMid,
                                                  message.sdpMLineIndex))
                   [] OTHER -> sendError(st, clientId, "UNKNOWN_MESSAGE",
                                         "Unknown message type")

(***************************************************************************)
(* Server actions.                                                         *)
(***************************************************************************)
Event(ev, clientId, raw) == [ev |-> ev, client |-> clientId, raw |-> raw]

Idle == Event("idle", 0, NoFrame)

NoMaps == [clients |-> EmptyMap, rooms |-> EmptyMap]

\* The handler's result becomes the server's state; an exception that
\* leaves a handler is uncaught (no handler is installed) and ends the
\* process, taking both maps and every connection with it.
Commit(st) ==
    IF st.threw
    THEN /\ crashed' = TRUE
         /\ clients' = EmptyMap
         /\ rooms' = EmptyMap
         /\ sent' = <<>>
    ELSE /\ crashed' = crashed
         /\ clients' = st.clients
         /\ rooms' = st.rooms
         /\ sent' = st.out

\* A handler starts when the previous one has returned.
Ready == ~crashed /\ last = Idle

\* src/unnamed/part_000:203-207 and 223, wss.on("connection")
OnConnection(st, clientId) ==
    LET st1 == [st EXCEPT !.clients =
                    Put(@, clientId, [readyState |-> "OPEN", roomId |-> Null])]
    IN send(st1, clientId, ConnectedMsg(clientId))

Connection ==
    /\ Ready
    /\ nextClientId < MaxConnections
    /\ LET clientId == nextClientId + 1 IN
          /\ Commit(OnConnection(HandlerState(clients, rooms), clientId))
          /\ nextClientId' = clientId
          /\ last' = Event("connection", clientId, NoFrame)
    /\ before' = [clients |-> clients, rooms |-> rooms]
    /\ UNCHANGED <<cryptoVars, engineVars, clientVars>>

\* randomUUID() is called only on the create-room path.
UuidsDrawn(raw) ==
    IF raw.syntax = "object" /\ raw.type = Some("create-room")
    THEN RandomUUIDs
    ELSE {UuidTable[1]}

\* src/unnamed/part_000:209-211, socket.on("message")
Message ==
    /\ Ready
    /\ \E clientId \in DOMAIN clients, raw \in Frames :
       \E uuid \in UuidsDrawn(raw) :
          /\ Commit(handleMessage(HandlerState(clients, rooms), clientId, raw, uuid))
          /\ last' = Event("message", clientId, raw)
    /\ before' = [clients |-> clients, rooms |-> rooms]
    /\ UNCHANGED <<nextClientId, cryptoVars, engineVars, clientVars>>

\* The close handler with its two statements in the other order.
OnClose_DeleteFirst(st, clientId) ==
    LET st0 == [st EXCEPT !.clients = Remove(@, clientId)]
    IN handleLeaveRoom(st0, clientId)

\* src/unnamed/part_000:213-217, socket.on("close"); ws has set readyState to CLOSED.
OnClose(st, clientId) ==
    LET st0 == [st EXCEPT !.clients[clientId].readyState = "CLOSED"]
        st1 == handleLeaveRoom(st0, clientId)
    IN [st1 EXCEPT !.clients = Remove(@, clientId)]

Close ==
    /\ Ready
    /\ \E clientId \in DOMAIN clients :
          /\ Commit(OnClose(HandlerState(clients, rooms), clientId))
          /\ last' = Event("close", clientId, NoFrame)
    /\ before' = [clients |-> clients, rooms |-> rooms]
    /\ UNCHANGED <<nextClientId, cryptoVars, engineVars, clientVars>>

\* The handler returns to the event loop; the frames it wrote are on
\* their way.
EndOfTurn ==
    /\ last # Idle
    /\ last' = Idle
    /\ sent' = <<>>
    /\ before' = NoMaps
    /\ UNCHANGED <<clients, rooms, nextClientId, crashed, cryptoVars, engineVars, clientVars>>

EngineIdle ==
    /\ eng = <<>>
    /\ channel = <<>>
    /\ disk = <<>>

ClientIdle == client = <<>>

CryptoIdle ==
    /\ encKey = <<>>
    /\ sessionId = <<>>
    /\ counter = <<>>
    /\ nextKey = 0
    /\ keyOnWire = {}
    /\ ivLog = EmptyBag

Init ==
    /\ clients = EmptyMap
    /\ rooms = EmptyMap
    /\ nextClientId = 0
    /\ crashed = FALSE
    /\ sent = <<>>
    /\ last = Idle
    /\ before = NoMaps
    /\ CryptoIdle
    /\ EngineIdle
    /\ ClientIdle

Next == Connection \/ Message \/ Close \/ EndOfTurn

Spec == Init /\ [][Next]_vars

(***************************************************************************)
(* Encryption context (src/unnamed/part_004) of the two ends of a data     *)
(* channel.                                                                *)
(* A key is the number of the generateKey call that made it: two calls    *)
(* never return the same 256-bit key.                                      *)
(***************************************************************************)
Peers == {"initiator", "joiner"}

\* src/unnamed/part_004:1-3
AES_KEY_LENGTH == 256
IV_LENGTH == 12
SESSION_ID_LENGTH == 4

\* crypto.getRandomValues(new Uint8Array(SESSION_ID_LENGTH))
SessionIdTable ==
    << <<222, 173, 190, 239>>, <<0, 0, 0, 1>>, <<255, 255, 255, 255>>,
       <<16, 32, 48, 64>> >>

RandomSessionIds == {SessionIdTable[i] : i \in 1..MaxSessionIds}

\* DataView.setBigUint64(0, n, false): the low 8 bytes of n, most
\* significant first.
RECURSIVE BigEndian(_, _)
BigEndian(n, len) ==
    IF len = 0 THEN <<>> ELSE Append(BigEndian(n \div 256, len - 1), n % 256)

\* src/unnamed/part_004:10-13, constructor
NewEncryptionManager(random) == [key |-> Null, sessionId |-> random, counter |-> 0]

\* src/unnamed/part_004:15-27
generateKey(em, fresh) == [em EXCEPT !.key = Some(fresh)]

\* src/unnamed/part_004:29-45
importKey(em, keyData) == [em EXCEPT !.key = Some(keyData)]

\* generateIV with the two parts of the IV swapped: counter first, session
\* prefix last.
generateIV_PrefixLast(em) ==
    [iv |-> BigEndian(em.counter, IV_LENGTH - SESSION_ID_LENGTH) \o em.sessionId,
     em |-> [em EXCEPT !.counter = @ + 1]]

\* src/unnamed/part_004:47-60: the IV made, and the manager with its counter moved on.
generateIV(em) ==
    [iv |-> em.sessionId \o BigEndian(em.counter, IV_LENGTH - SESSION_ID_LENGTH),
     em |-> [em EXCEPT !.counter = @ + 1]]

\* src/unnamed/part_004:126-130
reset(em, random) == [key |-> Null, sessionId |-> random, counter |-> 0]

Manager(p) == [key |-> encKey[p], sessionId |-> sessionId[p], counter |-> counter[p]]

SetManager(p, em) ==
    /\ encKey' = [encKey EXCEPT ![p] = em.key]
    /\ sessionId' = [sessionId EXCEPT ![p] = em.sessionId]
    /\ counter' = [counter EXCEPT ![p] = em.counter]

\* src/unnamed/part_002:58-73: setDataChannel(channel, true) runs
\* initializeEncryption, which generates a key and sends it.
InitializeEncryption ==
    /\ nextKey < MaxKeys
    /\ SetManager("initiator", generateKey(Manager("initiator"), nextKey + 1))
    /\ nextKey' = nextKey + 1
    /\ keyOnWire' = keyOnWire \cup {nextKey + 1}
    /\ UNCHANGED <<ivLog, serverVars, engineVars, clientVars>>

\* src/unnamed/part_002:232-245: the key is imported unless the engine
\* is ready already.
HandleEncryptionKey ==
    \E keyData \in keyOnWire :
        /\ keyOnWire' = keyOnWire \ {keyData}
        /\ IF encKey["joiner"] = Null
           THEN SetManager("joiner", importKey(Manager("joiner"), keyData))
           ELSE UNCHANGED <<encKey, sessionId, counter>>
        /\ UNCHANGED <<nextKey, ivLog, serverVars, engineVars, clientVars>>

\* src/unnamed/part_004:62-94, called for every chunk src/unnamed/part_002:176
\* sends: without a key it throws before an IV is made.
EncryptChunk ==
    \E p \in Peers :
        /\ encKey[p] # Null
        /\ counter[p] < MaxChunks
        /\ LET made == generateIV(Manager(p)) IN
              /\ SetManager(p, made.em)
              /\ ivLog' = ivLog (+) SetToBag({[key |-> encKey[p][1], iv |-> made.iv]})
        /\ UNCHANGED <<nextKey, keyOnWire, serverVars, engineVars, clientVars>>

\* src/unnamed/part_002:490-500: reset() when the view is torn down.
ResetEncryption ==
    \E p \in Peers, random \in RandomSessionIds :
        /\ SetManager(p, reset(Manager(p), random))
        /\ UNCHANGED <<nextKey, keyOnWire, ivLog, serverVars, engineVars, clientVars>>

ServerIdle ==
    /\ clients = EmptyMap
    /\ rooms = EmptyMap
    /\ nextClientId = 0
    /\ crashed = FALSE
    /\ sent = <<>>
    /\ last = Idle
    /\ before = NoMaps

CryptoInit ==
    /\ \E ri \in RandomSessionIds, rj \in RandomSessionIds :
          /\ encKey = [p \in Peers |-> NewEncryptionManager(ri).key]
          /\ sessionId = [p \in Peers |->
                            IF p = "initiator" THEN NewEncryptionManager(ri).sessionId
                                               ELSE NewEncryptionManager(rj).sessionId]
          /\ counter = [p \in Peers |-> NewEncryptionManager(ri).counter]
    /\ nextKey = 0
    /\ keyOnWire = {}
    /\ ivLog = EmptyBag
    /\ ServerIdle
    /\ EngineIdle
    /\ ClientIdle

CryptoNext ==
    InitializeEncryption \/ HandleEncryptionKey \/ EncryptChunk \/ ResetEncryption

CryptoSpec == CryptoInit /\ [][CryptoNext]_vars

(***************************************************************************)
(* File transfer engine (src/unnamed/part_002) of the two ends of one     *)
(* data channel, with the useFileTransfer hook (src/unnamed/part_003)     *)
(* that owns it and the view that mounts the hook once the channel is     *)
(* open (src/client/src/components/ConnectionTest.tsx, FileShareApp).     *)
(*                                                                         *)
(* JavaScript runs each callback to completion, so every event listener,  *)
(* timer callback and promise continuation is one atomic action; an       *)
(* await is a pending entry that a later action completes.  The data      *)
(* channel is ordered and reliable: p's wire holds what p sent, oldest    *)
(* first; the first drained of them have left p's send buffer and the     *)
(* rest count towards p's bufferedAmount.  The transport takes whole      *)
(* messages out of the buffer.  A file's bytes are not looked at: a chunk *)
(* of plaintext is the slice (file, start, len) it was read from, and a   *)
(* ciphertext is its plaintext with the key it was encrypted under (the   *)
(* IV travels with it unchanged; the IV sequence is the subject of the    *)
(* encryption context above).  One data-channel session is followed:      *)
(* each peer's view is mounted at most once.                               *)
(***************************************************************************)
MaxBatch == 2           \* files in one sendFiles call

\* src/unnamed/part_002:10-12
CHUNK_SIZE == 64 * 1024
BUFFER_FULL_THRESHOLD == 256 * 1024
BUFFER_LOW_THRESHOLD == 128 * 1024

\* What the two users have to send in a session, in the order they pick
\* them, each file with its File.size and the id crypto.randomUUID() will
\* give it: a queue of an empty file, a one-chunk file and an empty file;
\* one file of four chunks and a byte; an empty file each way.
Disks ==
    {[initiator |-> <<[id |-> 1, size |-> 0], [id |-> 2, size |-> CHUNK_SIZE],
                      [id |-> 3, size |-> 0]>>,
      joiner |-> <<>>],
     [initiator |-> <<[id |-> 1, size |-> 4 * CHUNK_SIZE + 1]>>,
      joiner |-> <<>>],
     [initiator |-> <<[id |-> 1, size |-> 0]>>,
      joiner |-> <<[id |-> 2, size |-> 0]>>]}

Other(p) == IF p = "initiator" THEN "joiner" ELSE "initiator"

Min(a, b) == IF a < b THEN a ELSE b
Max(a, b) == IF a > b THEN a ELSE b

\* Math.ceil(a / b) for integers a >= 0, b > 0
Ceil(a, b) == (a + b - 1) \div b

\* s without its i-th element
RemoveAt(s, i) == SubSeq(s, 1, i - 1) \o SubSeq(s, i + 1, Len(s))

\* src/unnamed/part_002:85-95: the FileInfo sendFiles makes for a file.
\* name, type and path are strings that travel unchanged and are left out.
FileInfoOf(file) ==
    [id |-> file.id, size |-> file.size,
     totalChunks |-> Ceil(file.size, CHUNK_SIZE)]

\* Blob.slice(start, end): both ends are clamped to the blob.
Slice(file, start, end) ==
    LET from == Min(start, file.size)
        to == Min(end, file.size)
    IN [file |-> file.id, start |-> from, len |-> Max(to - from, 0)]

\* DataView.setUint32 / getUint32: an index travels in 32 bits, taken
\* here as two 16-bit halves.
Uint32(n) == (((n \div 65536) % 65536) * 65536) + (n % 65536)

(***************************************************************************)
(* Messages on the data channel (src/client/src/lib/fileTransfer/         *)
(* types.ts:1-10); message[0] is the type, the rest the payload.           *)
(***************************************************************************)
KeyMsg(keyData) == [type |-> "ENCRYPTION_KEY", key |-> keyData]
QueueInfoMsg(totalFiles) ==
    [type |-> "QUEUE_INFO", totalFiles |-> totalFiles, currentIndex |-> 0]
FileInfoMsg(info) == [type |-> "FILE_INFO", info |-> info]
FileCompleteMsg == [type |-> "FILE_COMPLETE"]
FileAcceptMsg == [type |-> "FILE_ACCEPT"]
FileRejectMsg == [type |-> "FILE_REJECT"]

\* src/unnamed/part_002:377-406, encodeEncryptedChunk
encodeEncryptedChunk(index, encrypted, fileId) ==
    [type |-> "FILE_CHUNK", chunkIndex |-> Uint32(index), fileId |-> fileId,
     encrypted |-> encrypted]

\* src/unnamed/part_002:408-450, decodeEncryptedChunk
decodeEncryptedChunk(payload) ==
    [fileId |-> payload.fileId, chunkIndex |-> payload.chunkIndex,
     encrypted |-> payload.encrypted]

\* crypto.subtle.encrypt under AES-GCM: the plaintext, sealed under the key.
Encrypt(key, plain) == [key |-> key, plain |-> plain]

\* Bytes of a message as sendMessage builds it (src/unnamed/part_002:350-354):
\* one type byte and the payload.  A key is 32 bytes; a chunk payload is
\* 4 + 1 + 36 + 1 + 12 bytes of framing, the plaintext and the 16-byte
\* GCM tag; FileInfoJsonBytes and QueueInfoJsonBytes are the lengths of
\* the JSON texts for a file named "a.bin".
FileInfoJsonBytes == 110
QueueInfoJsonBytes == 33

ByteLength(msg) ==
    CASE msg.type = "ENCRYPTION_KEY" -> 1 + 32
      [] msg.type = "QUEUE_INFO" -> 1 + QueueInfoJsonBytes
      [] msg.type = "FILE_INFO" -> 1 + FileInfoJsonBytes
      [] msg.type = "FILE_CHUNK" -> 1 + 4 + 1 + 36 + 1 + 12 + msg.encrypted.plain.len + 16
      [] OTHER -> 1

RECURSIVE SumBytes(_)
SumBytes(msgs) ==
    IF msgs = <<>> THEN 0 ELSE ByteLength(Head(msgs)) + SumBytes(Tail(msgs))

\* RTCDataChannel.bufferedAmount at p's end, e.out being what the running
\* callback has sent already.
bufferedAmount(p, e) ==
    SumBytes(SubSeq(channel[p].wire, channel[p].drained + 1, Len(channel[p].wire)))
        + SumBytes([i \in 1..Len(e.out) |-> e.out[i].msg])

(***************************************************************************)
(* One peer's engine.  The record holds the FileTransferManager fields    *)
(* (src/unnamed/part_002:20-35), the promises and timers it is waiting    *)
(* for, the hook's offer slot (src/unnamed/part_003:30-41), what the      *)
(* callbacks have told the application, and out: the messages the         *)
(* running callback has handed to RTCDataChannel.send.                     *)
(***************************************************************************)
NewEngine ==
    [view |-> "none",               \* TransferView: "none", "mounted", "gone"
     sendChannel |-> FALSE,         \* sendChannel is set (listeners attached)
     sendQueue |-> <<>>,
     currentSendFile |-> Null,
     currentChunkIndex |-> 0,
     totalChunks |-> 0,
     isPaused |-> FALSE,
     receivingFiles |-> <<>>,       \* Map<id, FileMetadata>, in insertion order
     currentReceiveFileId |-> Null,
     key |-> Null,                  \* encryption.key
     isEncryptionReady |-> FALSE,
     generating |-> 0,              \* generateKey() calls not yet settled
     importing |-> <<>>,            \* importKey(keyData) calls not yet settled
     encrypting |-> <<>>,           \* chunks being read (key Null) or encrypted
     decrypting |-> <<>>,           \* decryptChunk() calls not yet settled
     chunkTimers |-> 0,             \* setTimeout(sendNextChunk, 0) pending
     fileTimers |-> 0,              \* setTimeout(processNextFile, 100) pending
     pendingOffer |-> Null,         \* the offer onFileOffer is waiting on
     errors |-> 0,                  \* onError calls
     completes |-> 0,               \* onTransferComplete calls
     received |-> <<>>,             \* onFileReceived calls: the files delivered
     declined |-> {},               \* ids of the offers answered with FILE_REJECT
     cancelled |-> {},              \* ids in flight when the channel closed or
                                    \*   the engine was reset
     closedMid |-> FALSE,           \* the channel closed with files in flight
     out |-> <<>>]

CurrentId(e) ==
    IF e.currentSendFile = Null THEN Null ELSE Some(e.currentSendFile[1].id)

\* src/unnamed/part_002:347-355.  Each message is noted with the sender's
\* isEncryptionReady flag and current file at the time of the send.
sendMessage(p, e, msg) ==
    IF ~e.sendChannel \/ channel[p].readyState # "open"
    THEN e
    ELSE [e EXCEPT !.out = Append(@, [msg |-> msg,
                                      ready |-> e.isEncryptionReady,
                                      cur |-> CurrentId(e)])]

\* callbacks.onError
onError(e) == [e EXCEPT !.errors = @ + 1]

\* src/unnamed/part_002:41-61; initializeEncryption runs up to its await.
setDataChannel(p, e, isInitiator) ==
    LET e1 == [e EXCEPT !.sendChannel = TRUE]
    IN IF isInitiator THEN [e1 EXCEPT !.generating = @ + 1] ELSE e1

\* src/unnamed/part_002:63-73, after generateKey() has settled with a
\* fresh key (src/unnamed/part_004:15-27).
initializeEncryption(p, e, fresh) ==
    LET e1 == [e EXCEPT !.generating = @ - 1,
                        !.key = Some(fresh),
                        !.isEncryptionReady = TRUE]
    IN sendMessage(p, e1, KeyMsg(fresh))

\* src/unnamed/part_002:116-136
processNextFile(p, e) ==
    IF e.sendQueue = <<>>
    THEN [e EXCEPT !.completes = @ + 1]
    ELSE LET queued == Head(e.sendQueue)
             e1 == [e EXCEPT !.sendQueue = Tail(@),
                             !.currentSendFile = Some(queued),
                             !.currentChunkIndex = 0,
                             !.totalChunks = FileInfoOf(queued).totalChunks,
                             !.isPaused = FALSE]
         IN sendMessage(p, e1, FileInfoMsg(FileInfoOf(queued)))

\* src/unnamed/part_002:75-114; files carry the ids randomUUID() gave
\* them.  A throw is caught by the hook, which reports it
\* (src/unnamed/part_003:131-139).
sendFiles(p, e, files) ==
    IF ~e.sendChannel \/ channel[p].readyState # "open" \/ ~e.isEncryptionReady
    THEN onError(e)
    ELSE LET e1 == [e EXCEPT !.sendQueue = @ \o files]
             e2 == sendMessage(p, e1, QueueInfoMsg(Len(e1.sendQueue)))
         IN IF e2.currentSendFile = Null THEN processNextFile(p, e2) ELSE e2

\* src/unnamed/part_002:138-170, up to the await of chunk.arrayBuffer()
sendNextChunk(p, e) ==
    IF e.currentSendFile = Null \/ ~e.sendChannel \/ e.isPaused
    THEN e
    ELSE IF e.currentChunkIndex >= e.totalChunks
    THEN LET e1 == sendMessage(p, e, FileCompleteMsg)
         IN [e1 EXCEPT !.currentSendFile = Null, !.fileTimers = @ + 1]
    ELSE IF bufferedAmount(p, e) > BUFFER_FULL_THRESHOLD
    THEN [e EXCEPT !.isPaused = TRUE]
    ELSE LET file == e.currentSendFile[1]
             start == e.currentChunkIndex * CHUNK_SIZE
             end == Min(start + CHUNK_SIZE, file.size)
         IN [e EXCEPT !.encrypting =
                Append(@, [plain |-> Slice(file, start, end), key |-> Null])]

\* src/unnamed/part_002:173-176: the chunk's bytes are read and
\* encryptChunk is called; without a key it throws
\* (src/unnamed/part_004:65-67) and the catch at 195-199 runs.
chunkRead(p, e, i) ==
    IF e.key = Null
    THEN [onError(e) EXCEPT !.encrypting = RemoveAt(@, i),
                            !.currentSendFile = Null]
    ELSE [e EXCEPT !.encrypting[i].key = e.key]

\* src/unnamed/part_002:176-199, after encryptChunk() has settled.  With
\* currentSendFile null, line 182 throws a TypeError into the catch.
chunkEncrypted(p, e, i) ==
    LET x == e.encrypting[i]
        e0 == [e EXCEPT !.encrypting = RemoveAt(@, i)]
    IN IF e0.currentSendFile = Null
       THEN [onError(e0) EXCEPT !.currentSendFile = Null]
       ELSE LET data == encodeEncryptedChunk(e0.currentChunkIndex,
                                             Encrypt(x.key[1], x.plain),
                                             e0.currentSendFile[1].id)
                e1 == sendMessage(p, e0, data)
            IN [e1 EXCEPT !.currentChunkIndex = @ + 1, !.chunkTimers = @ + 1]

\* Map.prototype.has / get / set / delete on receivingFiles
HasFile(files, id) == \E i \in 1..Len(files) : files[i].id = id
GetFile(files, id) == files[CHOOSE i \in 1..Len(files) : files[i].id = id]
SetFile(files, metadata) ==
    IF HasFile(files, metadata.id)
    THEN [i \in 1..Len(files) |->
             IF files[i].id = metadata.id THEN metadata ELSE files[i]]
    ELSE Append(files, metadata)
DeleteFile(files, id) == SelectSeq(files, LAMBDA m : m.id # id)

\* src/unnamed/part_002:232-245, up to the await of importKey()
handleEncryptionKey(p, e, keyData) ==
    IF e.isEncryptionReady THEN e
    ELSE [e EXCEPT !.importing = Append(@, keyData)]

\* src/unnamed/part_002:238-240, after importKey() has settled
\* (src/unnamed/part_004:29-45)
keyImported(p, e, i) ==
    [e EXCEPT !.importing = RemoveAt(@, i),
              !.key = Some(e.importing[i]),
              !.isEncryptionReady = TRUE]

\* handleFileInfo with an onFileOffer that does not test
\* isProcessingOfferRef (src/unnamed/part_003:57-59): every offer prompts.
handleFileInfo_AlwaysPrompts(p, e, fileInfo) ==
    [e EXCEPT !.pendingOffer = Some(fileInfo)]

\* src/unnamed/part_002:254-263 with onFileOffer (src/unnamed/part_003:56-69):
\* while an offer is pending the callback answers false at once and lines
\* 279-281 run; otherwise the offer waits for the user.
handleFileInfo(p, e, fileInfo) ==
    IF e.pendingOffer # Null
    THEN sendMessage(p, [e EXCEPT !.declined = @ \cup {fileInfo.id}],
                     FileRejectMsg)
    ELSE [e EXCEPT !.pendingOffer = Some(fileInfo)]

\* src/unnamed/part_002:265-281, after the user has answered the offer
\* (acceptFile / rejectFile, src/unnamed/part_003:142-160)
offerAnswered(p, e, accept) ==
    LET fileInfo == e.pendingOffer[1]
        e0 == [e EXCEPT !.pendingOffer = Null]
    IN IF accept
       THEN LET metadata == [id |-> fileInfo.id, size |-> fileInfo.size,
                             totalChunks |-> fileInfo.totalChunks,
                             receivedChunks |-> {}, bytesReceived |-> 0]
                e1 == [e0 EXCEPT !.receivingFiles = SetFile(@, metadata),
                                 !.currentReceiveFileId = Some(fileInfo.id)]
            IN sendMessage(p, e1, FileAcceptMsg)
       ELSE sendMessage(p, [e0 EXCEPT !.declined = @ \cup {fileInfo.id}],
                        FileRejectMsg)

\* handleFileChunk without the lookup of the reassembly record
\* (src/unnamed/part_002:288-292): every chunk is decrypted.
handleFileChunk_NoRecordCheck(p, e, payload) ==
    LET d == decodeEncryptedChunk(payload)
    IN [e EXCEPT !.decrypting =
           Append(@, [fileId |-> d.fileId, chunkIndex |-> d.chunkIndex,
                      plain |-> d.encrypted.plain,
                      ok |-> e.key = Some(d.encrypted.key)])]

\* src/unnamed/part_002:284-295, up to the await of decryptChunk(); the
\* key used is the one the engine holds when the call is made, and
\* without a key the call fails (src/unnamed/part_004:100-102).
handleFileChunk(p, e, payload) ==
    LET d == decodeEncryptedChunk(payload)
    IN IF ~HasFile(e.receivingFiles, d.fileId)
       THEN e
       ELSE [e EXCEPT !.decrypting =
                Append(@, [fileId |-> d.fileId, chunkIndex |-> d.chunkIndex,
                           plain |-> d.encrypted.plain,
                           ok |-> e.key = Some(d.encrypted.key)])]

\* receivedChunks[chunkIndex] = decrypted; bytesReceived += byteLength,
\* on the FileMetadata object the handler looked up; an object that has
\* left the map since is out of everybody's sight.
StoreChunk(files, id, chunkIndex, plain) ==
    [i \in 1..Len(files) |->
        IF files[i].id = id
        THEN [files[i] EXCEPT
                !.receivedChunks =
                    {c \in @ : c.index # chunkIndex}
                        \cup {[index |-> chunkIndex, plain |-> plain]},
                !.bytesReceived = @ + plain.len]
        ELSE files[i]]

\* chunkDecrypted that gives up the file being received when a chunk
\* cannot be decrypted.
chunkDecrypted_Abort(p, e, i) ==
    LET d == e.decrypting[i]
        e0 == [e EXCEPT !.decrypting = RemoveAt(@, i)]
    IN IF d.ok
       THEN [e0 EXCEPT !.receivingFiles =
                StoreChunk(@, d.fileId, d.chunkIndex, d.plain)]
       ELSE [onError(e0) EXCEPT !.receivingFiles = DeleteFile(@, d.fileId),
                                !.currentReceiveFileId = Null]

\* src/unnamed/part_002:295-309, after decryptChunk() has settled
chunkDecrypted(p, e, i) ==
    LET d == e.decrypting[i]
        e0 == [e EXCEPT !.decrypting = RemoveAt(@, i)]
    IN IF d.ok
       THEN [e0 EXCEPT !.receivingFiles =
                StoreChunk(@, d.fileId, d.chunkIndex, d.plain)]
       ELSE onError(e0)

\* receivedChunks.filter(c => c !== undefined): the chunks present, by
\* rising index.
RECURSIVE InIndexOrder(_)
InIndexOrder(chunks) ==
    IF chunks = {} THEN <<>>
    ELSE LET first == CHOOSE c \in chunks : \A o \in chunks : c.index <= o.index
         IN <<first.plain>> \o InIndexOrder(chunks \ {first})

\* src/unnamed/part_002:312-333
handleFileComplete(p, e) ==
    IF e.currentReceiveFileId = Null THEN e
    ELSE IF ~HasFile(e.receivingFiles, e.currentReceiveFileId[1]) THEN e
    ELSE LET receivingFile == GetFile(e.receivingFiles, e.currentReceiveFileId[1])
             allChunks == InIndexOrder(receivingFile.receivedChunks)
         IN [e EXCEPT !.received = Append(@, [id |-> receivingFile.id,
                                              size |-> receivingFile.size,
                                              chunks |-> allChunks]),
                      !.receivingFiles = DeleteFile(@, receivingFile.id),
                      !.currentReceiveFileId = Null]

\* src/unnamed/part_002:335-338
handleFileAccept(p, e) == sendNextChunk(p, e)

\* src/unnamed/part_002:340-345
handleFileReject(p, e) ==
    [onError(e) EXCEPT !.currentSendFile = Null, !.sendQueue = <<>>]

\* src/unnamed/part_002:202-230; QUEUE_INFO is only logged (247-252).
handleChannelMessage(p, e, msg) ==
    CASE msg.type = "ENCRYPTION_KEY" -> handleEncryptionKey(p, e, msg.key)
      [] msg.type = "QUEUE_INFO" -> e
      [] msg.type = "FILE_INFO" -> handleFileInfo(p, e, msg.info)
      [] msg.type = "FILE_CHUNK" -> handleFileChunk(p, e, msg)
      [] msg.type = "FILE_COMPLETE" -> handleFileComplete(p, e)
      [] msg.type = "FILE_ACCEPT" -> handleFileAccept(p, e)
      [] msg.type = "FILE_REJECT" -> handleFileReject(p, e)

\* src/unnamed/part_002:46-52, the bufferedamountlow listener
onBufferedAmountLow(p, e) ==
    IF e.isPaused /\ e.currentSendFile # Null
    THEN sendNextChunk(p, [e EXCEPT !.isPaused = FALSE])
    ELSE e

\* src/unnamed/part_002:490-500 (encryption.reset() drops the key,
\* src/unnamed/part_004:126-130)
resetManager(e) ==
    [e EXCEPT !.currentSendFile = Null,
              !.sendQueue = <<>>,
              !.currentChunkIndex = 0,
              !.totalChunks = 0,
              !.isPaused = FALSE,
              !.receivingFiles = <<>>,
              !.currentReceiveFileId = Null,
              !.isEncryptionReady = FALSE,
              !.key = Null]

\* The files an engine has in hand: being sent, queued, offered to it or
\* being reassembled.
InFlight(e) ==
    {e.sendQueue[i].id : i \in 1..Len(e.sendQueue)}
        \cup {e.receivingFiles[i].id : i \in 1..Len(e.receivingFiles)}
        \cup (IF e.currentSendFile = Null THEN {} ELSE {e.currentSendFile[1].id})
        \cup (IF e.pendingOffer = Null THEN {} ELSE {e.pendingOffer[1].id})

\* src/unnamed/part_003:108-112, the hook's cleanup when the view goes:
\* the pending offer can no longer be answered.
Cleanup(e) ==
    [resetManager(e) EXCEPT !.pendingOffer = Null, !.view = "gone",
                            !.cancelled = @ \cup InFlight(e)]

(***************************************************************************)
(* Actions: one per callback of a peer.                                    *)
(***************************************************************************)
Sent(e) == [i \in 1..Len(e.out) |-> e.out[i].msg]

\* The callback returns: what it sent is in the channel's buffer.  ch is
\* the channel as the callback found it.
CommitEngine(p, e, ch) ==
    /\ eng' = [eng EXCEPT ![p] = [e EXCEPT !.out = <<>>]]
    /\ channel' = [ch EXCEPT ![p].wire = @ \o Sent(e),
                             ![p].txLog = @ \o e.out]

IdleOutsideEngine ==
    UNCHANGED <<serverVars, encKey, sessionId, counter, keyOnWire, ivLog, clientVars>>

\* FileShareApp shows TransferView once the channel is open
\* (ConnectionTest.tsx:426-433); its effects make the manager and hand it
\* the channel (src/unnamed/part_003:105-106, 115-119).
Mount(p) ==
    /\ eng[p].view = "none"
    /\ channel[p].readyState = "open"
    /\ CommitEngine(p, setDataChannel(p, [eng[p] EXCEPT !.view = "mounted"],
                                      p = "initiator"), channel)
    /\ UNCHANGED <<disk, nextKey>>
    /\ IdleOutsideEngine

\* generateKey() settles.
KeyGenerated(p) ==
    /\ eng[p].generating > 0
    /\ CommitEngine(p, initializeEncryption(p, eng[p], nextKey + 1), channel)
    /\ nextKey' = nextKey + 1
    /\ UNCHANGED disk
    /\ IdleOutsideEngine

\* importKey() settles.
KeyImported(p) ==
    /\ \E i \in 1..Len(eng[p].importing) :
          CommitEngine(p, keyImported(p, eng[p], i), channel)
    /\ UNCHANGED <<disk, nextKey>>
    /\ IdleOutsideEngine

\* The transport takes the oldest buffered message of p; bufferedamountlow
\* is queued when bufferedAmount falls from above the threshold
\* setDataChannel configured (src/unnamed/part_002:44) to it or below.
Drain(p) ==
    /\ channel[p].readyState = "open"
    /\ channel[p].drained < Len(channel[p].wire)
    /\ LET was == bufferedAmount(p, eng[p])
           is == was - ByteLength(channel[p].wire[channel[p].drained + 1])
       IN channel' = [channel EXCEPT
              ![p].drained = @ + 1,
              ![p].lowPending =
                  @ \/ (was > BUFFER_LOW_THRESHOLD /\ is <= BUFFER_LOW_THRESHOLD)]
    /\ UNCHANGED <<eng, disk, nextKey>>
    /\ IdleOutsideEngine

\* The message event of the oldest message on its way to q
\* (src/unnamed/part_002:54-56).  Before q's engine has been given the
\* channel nothing of the engine listens.
Dispatch(q) ==
    LET p == Other(q) IN
    /\ channel[q].readyState = "open"
    /\ channel[p].drained > 0
    /\ LET msg == Head(channel[p].wire)
           ch == [channel EXCEPT ![p].wire = Tail(@), ![p].drained = @ - 1]
       IN CommitEngine(q, IF eng[q].sendChannel
                          THEN handleChannelMessage(q, eng[q], msg)
                          ELSE eng[q], ch)
    /\ UNCHANGED <<disk, nextKey>>
    /\ IdleOutsideEngine

\* The bufferedamountlow event.
LowWater(p) ==
    /\ channel[p].lowPending
    /\ CommitEngine(p, IF eng[p].sendChannel
                       THEN onBufferedAmountLow(p, eng[p])
                       ELSE eng[p],
                    [channel EXCEPT ![p].lowPending = FALSE])
    /\ UNCHANGED <<disk, nextKey>>
    /\ IdleOutsideEngine

\* setTimeout(() => this.sendNextChunk(), 0) fires (src/unnamed/part_002:194).
ChunkTimer(p) ==
    /\ eng[p].chunkTimers > 0
    /\ CommitEngine(p, sendNextChunk(p, [eng[p] EXCEPT !.chunkTimers = @ - 1]),
                    channel)
    /\ UNCHANGED <<disk, nextKey>>
    /\ IdleOutsideEngine

\* setTimeout(() => this.processNextFile(), 100) fires (src/unnamed/part_002:158).
FileTimer(p) ==
    /\ eng[p].fileTimers > 0
    /\ CommitEngine(p, processNextFile(p, [eng[p] EXCEPT !.fileTimers = @ - 1]),
                    channel)
    /\ UNCHANGED <<disk, nextKey>>
    /\ IdleOutsideEngine

\* chunk.arrayBuffer() settles.
ChunkRead(p) ==
    /\ \E i \in 1..Len(eng[p].encrypting) :
          /\ eng[p].encrypting[i].key = Null
          /\ CommitEngine(p, chunkRead(p, eng[p], i), channel)
    /\ UNCHANGED <<disk, nextKey>>
    /\ IdleOutsideEngine

\* encryptChunk() settles.
ChunkEncrypted(p) ==
    /\ \E i \in 1..Len(eng[p].encrypting) :
          /\ eng[p].encrypting[i].key # Null
          /\ CommitEngine(p, chunkEncrypted(p, eng[p], i), channel)
    /\ UNCHANGED <<disk, nextKey>>
    /\ IdleOutsideEngine

\* decryptChunk() settles.
ChunkDecrypted(p) ==
    /\ \E i \in 1..Len(eng[p].decrypting) :
          CommitEngine(p, chunkDecrypted(p, eng[p], i), channel)
    /\ UNCHANGED <<disk, nextKey>>
    /\ IdleOutsideEngine

\* The user picks the next one to MaxBatch files in the mounted view
\* (SenderView.tsx:186-202); the id is the one crypto.randomUUID() gives
\* the file (src/unnamed/part_002:88).
SendFiles(p) ==
    /\ eng[p].view = "mounted"
    /\ \E n \in 1..Min(MaxBatch, Len(disk[p])) :
          /\ CommitEngine(p, sendFiles(p, eng[p], SubSeq(disk[p], 1, n)), channel)
          /\ disk' = [disk EXCEPT ![p] = SubSeq(@, n + 1, Len(@))]
    /\ UNCHANGED nextKey
    /\ IdleOutsideEngine

\* The user accepts the pending offer (src/unnamed/part_003:142-151).
AcceptFile(p) ==
    /\ eng[p].view = "mounted"
    /\ eng[p].pendingOffer # Null
    /\ CommitEngine(p, offerAnswered(p, eng[p], TRUE), channel)
    /\ UNCHANGED <<disk, nextKey>>
    /\ IdleOutsideEngine

\* The user declines it (src/unnamed/part_003:153-160).
RejectFile(p) ==
    /\ eng[p].view = "mounted"
    /\ eng[p].pendingOffer # Null
    /\ CommitEngine(p, offerAnswered(p, eng[p], FALSE), channel)
    /\ UNCHANGED <<disk, nextKey>>
    /\ IdleOutsideEngine

\* p's end of the channel closes: closed here
\* (usePeerConnection.ts:55-59) or by the other side.  Nothing of the
\* engine listens for it.
ChannelClose(p) ==
    /\ channel[p].readyState = "open"
    /\ channel' = [channel EXCEPT ![p].readyState = "closed"]
    /\ eng' = [eng EXCEPT ![p].cancelled = @ \cup InFlight(eng[p]),
                          ![p].closedMid = InFlight(eng[p]) # {}]
    /\ UNCHANGED <<disk, nextKey>>
    /\ IdleOutsideEngine

\* TransferView goes away: the user disconnects (ConnectionTest.tsx:384-388)
\* or the channel is no longer open (ConnectionTest.tsx:426); the hook's
\* cleanup resets the manager.
Unmount(p) ==
    /\ eng[p].view = "mounted"
    /\ CommitEngine(p, Cleanup(eng[p]), channel)
    /\ UNCHANGED <<disk, nextKey>>
    /\ IdleOutsideEngine

\* The channel has just opened at both ends; no view is mounted yet.
EngineInit ==
    /\ eng = [p \in Peers |-> NewEngine]
    /\ channel = [p \in Peers |->
                     [readyState |-> "open", wire |-> <<>>, drained |-> 0,
                      lowPending |-> FALSE, txLog |-> <<>>]]
    /\ disk \in Disks
    /\ ServerIdle
    /\ CryptoIdle
    /\ ClientIdle

Transport(p) == Drain(p) \/ Dispatch(p) \/ LowWater(p)

Settled(p) ==
    \/ KeyGenerated(p) \/ KeyImported(p)
    \/ ChunkRead(p) \/ ChunkEncrypted(p) \/ ChunkDecrypted(p)
    \/ ChunkTimer(p) \/ FileTimer(p)

User(p) == SendFiles(p) \/ AcceptFile(p) \/ RejectFile(p)

EngineNext ==
    \E p \in Peers :
        \/ Mount(p) \/ Unmount(p) \/ ChannelClose(p)
        \/ Transport(p) \/ Settled(p) \/ User(p)

EngineSpec == EngineInit /\ [][EngineNext]_vars


(***************************************************************************)
(* The browser client: SignalingProvider (src/unnamed/part_001) and the   *)
(* peer session controller usePeerConnection                               *)
(* (src/client/src/lib/webrtc/usePeerConnection.ts) of every tab.         *)
(***************************************************************************)
MaxAttempts == 6        \* consecutive failed connects of one tab's socket
MaxSends == 3           \* messages the application passes to send

Tabs == {1, 2}

\* src/unnamed/part_001:30
RECONNECT_DELAYS == <<1000, 2000, 4000, 8000, 16000>>

\* Client frames (src/client/src/lib/signaling/types.ts), in the shape the
\* server parses them into.
CreateRoomFrame == Frame("object", Some("create-room"), Null, Null, NoIce)
JoinRoomFrame(roomId) == Frame("object", Some("join-room"), Some(roomId), Null, NoIce)
LeaveRoomFrame == Frame("object", Some("leave-room"), Null, Null, NoIce)
OfferFrame(sdp) == Frame("object", Some("offer"), Null, Some(sdp), NoIce)
AnswerFrame(sdp) == Frame("object", Some("answer"), Null, Some(sdp), NoIce)

(***************************************************************************)
(* One tab.  The record holds the provider's state and refs               *)
(* (src/unnamed/part_001:41-55), the WebSocket the socket ref points to,  *)
(* and the controller's state and refs (usePeerConnection.ts:32-44).      *)
(***************************************************************************)
NewClient ==
    [connectionState |-> "disconnected",   \* SignalingState
     clientId |-> Null,
     roomId |-> Null,
     isInitiator |-> FALSE,
     error |-> Null,
     socket |-> "none",              \* socketRef.current.readyState, "none": no socket
     reconnectAttempt |-> 0,
     reconnectTimeout |-> Null,      \* the delay of the pending reconnect timer
     messageQueue |-> <<>>,
     tx |-> <<>>,                    \* frames handed to socket.send, in order
     inbox |-> <<>>,                 \* server frames on their way to the socket
     submitted |-> <<>>,             \* every message passed to send, in order
     failures |-> 0,                 \* closes of the socket since it last opened
     peerState |-> "idle",           \* usePeerConnection connectionState
     isChannelOpen |-> FALSE,
     peerConnection |-> Null,        \* peerConnectionRef: <<[remote, state]>>
     dataChannel |-> Null,           \* dataChannelRef: <<readyState>>
     pendingCandidates |-> <<>>,
     heard |-> <<>>,                 \* candidates handleIceCandidate was given
     applied |-> <<>>,               \* candidates given to pc.addIceCandidate
                                     \*   (both since the last cleanup)
     isInitiatorRef |-> FALSE,
     steps |-> <<>>,                 \* async functions waiting at an await
     released |-> <<>>,              \* closed channels and transports whose
                                     \*   listeners are still attached
     errors |-> <<>>,                \* optionsRef.current.onError calls
     afterPeerLeft |-> FALSE]        \* peer-left was handled and no handshake
                                     \*   has begun since

\* src/unnamed/part_001:57-65, with the queue handed over back to front.
flushMessageQueue_Lifo(c) ==
    IF c.socket = "OPEN"
    THEN [c EXCEPT !.tx = @ \o [i \in 1..Len(c.messageQueue) |->
                                   c.messageQueue[Len(c.messageQueue) + 1 - i]],
                   !.messageQueue = <<>>]
    ELSE c

\* src/unnamed/part_001:57-65
flushMessageQueue(c) ==
    IF c.socket = "OPEN"
    THEN [c EXCEPT !.tx = @ \o c.messageQueue, !.messageQueue = <<>>]
    ELSE c

\* src/unnamed/part_001:67-74, send
clientSend(c, message) ==
    LET c1 == [c EXCEPT !.submitted = Append(@, message)]
    IN IF c.socket = "OPEN"
       THEN [c1 EXCEPT !.tx = Append(@, message)]
       ELSE [c1 EXCEPT !.messageQueue = Append(@, message)]

\* src/unnamed/part_001:76-78
createRoom(c) == clientSend(c, CreateRoomFrame)

\* src/unnamed/part_001:80-85
joinRoom(c, roomId) == clientSend(c, JoinRoomFrame(ToUpperCase(roomId)))

\* src/unnamed/part_001:87-90
leaveRoom(c) ==
    [clientSend(c, LeaveRoomFrame) EXCEPT !.roomId = Null, !.isInitiator = FALSE]

\* src/unnamed/part_001:99-136, the provider's own state update
handleServerMessage(c, message) ==
    CASE message.type = "connected" ->
            [c EXCEPT !.connectionState = "connected",
                      !.clientId = Some(message.clientId),
                      !.error = Null]
      [] message.type = "room-created" ->
            [c EXCEPT !.roomId = Some(message.roomId), !.isInitiator = TRUE]
      [] message.type = "room-joined" ->
            [c EXCEPT !.roomId = Some(message.roomId),
                      !.isInitiator = message.isInitiator]
      [] message.type = "peer-left" ->
            [c EXCEPT !.roomId = Null, !.isInitiator = FALSE]
      [] message.type = "error" ->
            [c EXCEPT !.error = Some(message.code)]
      [] OTHER -> c

\* src/unnamed/part_001:142-148, connect
connect(c) ==
    IF c.socket = "OPEN" THEN c
    ELSE [c EXCEPT !.connectionState = "connecting",
                   !.socket = "CONNECTING",
                   !.inbox = <<>>]

\* socket.onopen that leaves the attempt counter as it is.
onopen_KeepsAttempt(c) ==
    flushMessageQueue([c EXCEPT !.socket = "OPEN", !.failures = 0])

\* src/unnamed/part_001:150-153, socket.onopen
onopen(c) ==
    flushMessageQueue([c EXCEPT !.socket = "OPEN", !.failures = 0,
                                !.reconnectAttempt = 0])

\* src/unnamed/part_001:164-181, socket.onclose
onclose(c) ==
    LET attempt == c.reconnectAttempt
        delay == RECONNECT_DELAYS[Min(attempt, Len(RECONNECT_DELAYS) - 1) + 1]
    IN [c EXCEPT !.socket = "CLOSED",
                 !.inbox = <<>>,
                 !.failures = @ + 1,
                 !.connectionState = "disconnected",
                 !.roomId = Null,
                 !.isInitiator = FALSE,
                 !.reconnectTimeout = Some(delay)]

\* src/unnamed/part_001:177-180, the reconnect timer fires
reconnect(c) ==
    connect([c EXCEPT !.reconnectTimeout = Null, !.reconnectAttempt = @ + 1])

(***************************************************************************)
(* usePeerConnection.  An RTCPeerConnection is the record [remote, state]: *)
(* remoteDescription is set, and connectionState.  A data channel is its  *)
(* readyState.  An async function waiting at an await is the record       *)
(* [fn, at, stale]; stale says that the transport it works on has been    *)
(* closed by cleanup since (at most one transport is referenced at a      *)
(* time, createPeerConnection returns the one there is).                   *)
(***************************************************************************)
Step(fn, at) == [fn |-> fn, at |-> at, stale |-> FALSE, queue |-> <<>>]

\* optionsRef.current.onError
reportError(c, text) == [c EXCEPT !.errors = Append(@, text)]

\* usePeerConnection.ts:55-68.  close() of a channel not yet closed is
\* followed by its close event, and the listeners stay attached.
cleanup(c) ==
    [c EXCEPT !.released =
                  IF c.dataChannel # Null /\ c.dataChannel # Some("closed")
                  THEN Append(@, "channel") ELSE @,
              !.dataChannel = Null,
              !.peerConnection = Null,
              !.steps = [i \in 1..Len(@) |-> [@[i] EXCEPT !.stale = TRUE]],
              !.pendingCandidates = <<>>,
              !.heard = <<>>,
              !.applied = <<>>,
              !.peerState = "idle",
              !.isChannelOpen = FALSE]

\* usePeerConnection.ts:70-107: the listeners are attached and the ref is
\* set; a channel the ref pointed to before keeps its listeners.
setupDataChannel(c, readyState) ==
    [c EXCEPT !.released =
                  IF c.dataChannel # Null /\ c.dataChannel # Some("closed")
                  THEN Append(@, "channel") ELSE @,
              !.dataChannel = Some(readyState)]

\* usePeerConnection.ts:109-161
createPeerConnection(c) ==
    IF c.peerConnection # Null THEN c
    ELSE [c EXCEPT !.peerConnection = Some([remote |-> FALSE, state |-> "new"])]

\* usePeerConnection.ts:178-187, up to the await of createOffer()
initiateConnection(c) ==
    LET c1 == createPeerConnection([c EXCEPT !.peerState = "connecting",
                                             !.afterPeerLeft = FALSE])
        c2 == setupDataChannel(c1, "connecting")
    IN [c2 EXCEPT !.steps = Append(@, Step("initiateConnection", "createOffer"))]

\* usePeerConnection.ts:198-205, up to the await of setRemoteDescription()
handleOffer(c, sdp) ==
    LET c1 == createPeerConnection([c EXCEPT !.peerState = "connecting",
                                             !.afterPeerLeft = FALSE])
    IN [c1 EXCEPT !.steps = Append(@, Step("handleOffer", "setRemoteDescription"))]

\* usePeerConnection.ts:221-228, up to the await of setRemoteDescription()
handleAnswer(c, sdp) ==
    IF c.peerConnection = Null THEN c
    ELSE [c EXCEPT !.steps = Append(@, Step("handleAnswer", "setRemoteDescription"))]

\* handleIceCandidate that gives every candidate to the transport at once.
handleIceCandidate_NoBuffer(c, candidate) ==
    [c EXCEPT !.heard = Append(@, candidate), !.applied = Append(@, candidate)]

\* usePeerConnection.ts:238-265 (a failure of addIceCandidate is only logged)
handleIceCandidate(c, candidate) ==
    LET c1 == [c EXCEPT !.heard = Append(@, candidate)] IN
    IF c.peerConnection = Null \/ ~c.peerConnection[1].remote
    THEN [c1 EXCEPT !.pendingCandidates = Append(@, candidate)]
    ELSE [c1 EXCEPT !.applied = Append(@, candidate)]

\* usePeerConnection.ts:292-323, the controller's subscriber
subscriber(c, message) ==
    CASE message.type = "peer-joined" ->
            IF c.isInitiatorRef THEN initiateConnection(c) ELSE c
      [] message.type = "offer" -> handleOffer(c, message.sdp)
      [] message.type = "answer" -> handleAnswer(c, message.sdp)
      [] message.type = "ice-candidate" -> handleIceCandidate(c, message.candidate)
      [] message.type = "peer-left" -> [cleanup(c) EXCEPT !.afterPeerLeft = TRUE]
      [] OTHER -> c

\* React renders after the callback has returned: the effect that keeps
\* isInitiatorRef in step runs (usePeerConnection.ts:47-49), and when
\* roomId has changed the room effect's cleanup runs
\* (usePeerConnection.ts:336-343).
render(prev, c) ==
    LET c1 == [c EXCEPT !.isInitiatorRef = c.isInitiator]
    IN IF c.roomId # prev.roomId THEN cleanup(c1) ELSE c1

\* src/unnamed/part_001:155-162, socket.onmessage: the provider's update,
\* then the subscribers (src/unnamed/part_001:139).
onmessage(c, message) ==
    render(c, subscriber(handleServerMessage(c, message), message))

\* usePeerConnection.ts:167-175, the loop of addPendingCandidates run by
\* step i: the next candidate of the array it iterates is given to the
\* transport it took at its start and the call is awaited; a rejection is
\* caught and the loop goes on.  After the last one the buffer ref is set
\* to a new empty array and the caller goes on (usePeerConnection.ts:208,
\* 229).  A transport that cleanup has closed takes no candidate.
drain(c, i) ==
    LET s == c.steps[i] IN
    IF s.queue # <<>>
    THEN [c EXCEPT !.applied = IF s.stale THEN @ ELSE Append(@, Head(s.queue)),
                   !.steps[i].at = "addIceCandidate",
                   !.steps[i].queue = Tail(s.queue)]
    ELSE LET c1 == [c EXCEPT !.pendingCandidates = <<>>]
         IN IF s.fn = "handleOffer"
            THEN [c1 EXCEPT !.steps[i].at = "createAnswer"]
            ELSE [c1 EXCEPT !.steps = RemoveAt(@, i)]

\* The awaited operation of step i has failed: inside the loop of
\* addPendingCandidates the loop goes on, elsewhere the catch block of
\* the function runs (usePeerConnection.ts:191-195, 212-216, 230-233).
rejected(c, i) ==
    LET s == c.steps[i]
        c1 == [c EXCEPT !.steps = RemoveAt(@, i)]
    IN CASE s.at = "addIceCandidate" -> drain(c, i)
         [] s.fn = "initiateConnection" ->
               cleanup(reportError(c1, "Failed to create offer"))
         [] s.fn = "handleOffer" ->
               cleanup(reportError(c1, "Failed to handle offer"))
         [] s.fn = "handleAnswer" ->
               reportError(c1, "Failed to handle answer")

\* usePeerConnection.ts:163-166, addPendingCandidates as called by step i
\* after setRemoteDescription(): it takes the transport and the buffered
\* candidates as they are now and starts the loop.
afterRemoteDescription(c, i) ==
    LET c1 == [c EXCEPT !.peerConnection[1].remote = TRUE,
                        !.steps[i].queue = c.pendingCandidates]
    IN drain(c1, i)

\* The awaited operation of step i has succeeded: the function runs on to
\* its next await or to its end (usePeerConnection.ts:187-190, 205-211,
\* 228-229, 167-175).
resolved(c, i) ==
    LET s == c.steps[i] IN
    CASE s.at = "createOffer" -> [c EXCEPT !.steps[i].at = "setLocalDescription"]
      [] s.at = "setRemoteDescription" -> afterRemoteDescription(c, i)
      [] s.at = "addIceCandidate" -> drain(c, i)
      [] s.at = "createAnswer" -> [c EXCEPT !.steps[i].at = "setLocalDescription"]
      [] s.at = "setLocalDescription" ->
            LET c1 == [c EXCEPT !.steps = RemoveAt(@, i)]
            IN IF s.fn = "initiateConnection"
               THEN clientSend(c1, OfferFrame("v=0 o=- 46117317 2 IN IP4 127.0.0.1"))
               ELSE clientSend(c1, AnswerFrame("v=0 o=- 46117317 2 IN IP4 127.0.0.1"))

\* usePeerConnection.ts:134-152, pc.onconnectionstatechange
onconnectionstatechange(c, state) ==
    LET c1 == [c EXCEPT !.peerConnection[1].state = state]
    IN CASE state = "connecting" -> [c1 EXCEPT !.peerState = "connecting"]
         [] state = "connected" -> [c1 EXCEPT !.peerState = "connected"]
         [] state \in {"disconnected", "closed"} ->
               [c1 EXCEPT !.peerState = "disconnected"]
         [] state = "failed" ->
               reportError([c1 EXCEPT !.peerState = "failed"], "Connection failed")

\* usePeerConnection.ts:73-82, channel.onopen
channelOnOpen(c) ==
    [c EXCEPT !.peerState = "connected", !.isChannelOpen = TRUE]

\* usePeerConnection.ts:84-95, channel.onclose
channelOnClose(c) ==
    [c EXCEPT !.peerState = "disconnected", !.isChannelOpen = FALSE]

(***************************************************************************)
(* Actions of a tab: one per callback.                                     *)
(***************************************************************************)
\* The callback returns and React renders.
CommitClient(t, c) == client' = [client EXCEPT ![t] = render(client[t], c)]

IdleOutsideClient == UNCHANGED <<serverVars, cryptoVars, engineVars>>

\* The provider mounts: its effect calls connect() (src/unnamed/part_001:188-189).
ProviderMount(t) ==
    /\ client[t].socket = "none"
    /\ CommitClient(t, connect(client[t]))
    /\ IdleOutsideClient

\* The socket opens.
SocketOpen(t) ==
    /\ client[t].socket = "CONNECTING"
    /\ CommitClient(t, onopen(client[t]))
    /\ IdleOutsideClient

\* The socket closes: the connect failed, or the connection was lost.
SocketClose(t) ==
    /\ client[t].socket \in {"CONNECTING", "OPEN"}
    /\ client[t].failures < MaxAttempts
    /\ CommitClient(t, onclose(client[t]))
    /\ IdleOutsideClient

\* The reconnect timer fires.
ReconnectTimer(t) ==
    /\ client[t].reconnectTimeout # Null
    /\ CommitClient(t, reconnect(client[t]))
    /\ IdleOutsideClient

\* The buttons (ConnectionTest.tsx:159-193): create and join are enabled
\* outside a room while signaling is connected, leave inside a room.
UserCreateRoom(t) ==
    /\ client[t].roomId = Null
    /\ client[t].connectionState = "connected"
    /\ Len(client[t].submitted) < MaxSends
    /\ CommitClient(t, createRoom(client[t]))
    /\ IdleOutsideClient

UserJoinRoom(t) ==
    /\ client[t].roomId = Null
    /\ client[t].connectionState = "connected"
    /\ Len(client[t].submitted) < MaxSends
    /\ \E code \in TypedCodes : CommitClient(t, joinRoom(client[t], code))
    /\ IdleOutsideClient

UserLeaveRoom(t) ==
    /\ client[t].roomId # Null
    /\ Len(client[t].submitted) < MaxSends
    /\ CommitClient(t, leaveRoom(client[t]))
    /\ IdleOutsideClient

\* The transport has a candidate (usePeerConnection.ts:117-127): the
\* controller passes it to send, whatever the socket's state.
IceCandidateFrames ==
    {Frame("object", Some("ice-candidate"), Null, Null, i) : i \in IceCandidates}

OnIceCandidate(t) ==
    /\ Len(client[t].submitted) < MaxSends
    /\ \E frame \in IceCandidateFrames : CommitClient(t, clientSend(client[t], frame))
    /\ IdleOutsideClient

\* A frame of the server arrives on the open socket.
ProviderFrames ==
    {ConnectedMsg(1), RoomCreatedMsg(generateRoomId(UuidTable[1])),
     RoomJoinedMsg(generateRoomId(UuidTable[1]), FALSE), PeerLeftMsg,
     ErrorMsg("ROOM_NOT_FOUND", "Room does not exist or has expired")}

ServerSays(t) ==
    /\ client[t].socket = "OPEN"
    /\ \E message \in ProviderFrames : CommitClient(t, onmessage(client[t], message))
    /\ IdleOutsideClient

(***************************************************************************)
(* One tab's SignalingProvider against a server that may refuse, accept   *)
(* and drop its connection at any time.                                    *)
(***************************************************************************)
SignalingInit ==
    /\ client = [t \in Tabs |-> NewClient]
    /\ ServerIdle
    /\ CryptoIdle
    /\ EngineIdle

SignalingNext ==
    \E t \in {1} :
        \/ ProviderMount(t) \/ SocketOpen(t) \/ SocketClose(t) \/ ReconnectTimer(t)
        \/ UserCreateRoom(t) \/ UserJoinRoom(t) \/ UserLeaveRoom(t)
        \/ OnIceCandidate(t) \/ ServerSays(t)

SignalingSpec == SignalingInit /\ [][SignalingNext]_vars

(***************************************************************************)
(* One tab's peer session controller.  The signaling socket is open; the  *)
(* server's frames, the outcome of every awaited WebRTC call and the      *)
(* events of the transport and of the channels are the inputs.            *)
(***************************************************************************)
MaxWork == 3            \* handshake steps, errors, sends, buffered candidates
                        \*   and released channels of one tab, taken together

Work(c) ==
    Len(c.steps) + Len(c.errors) + Len(c.released)
        + Len(c.heard) + Len(c.submitted)

\* The frames the controller and the provider act on.
SessionFrames ==
    {RoomCreatedMsg(generateRoomId(UuidTable[1])),
     RoomJoinedMsg(generateRoomId(UuidTable[1]), FALSE),
     PeerJoinedMsg, PeerLeftMsg,
     RelayedSdpMsg("offer", Some("v=0 o=- 46117317 2 IN IP4 127.0.0.1")),
     RelayedSdpMsg("answer", Some("v=0 o=- 46117317 2 IN IP4 127.0.0.1")),
     RelayedIceMsg(Some(""), Null, Null)}

\* The server writes a frame to the tab's socket.
ServerFrame(t) ==
    /\ client[t].socket = "OPEN"
    /\ client[t].inbox = <<>>
    /\ Work(client[t]) < MaxWork
    /\ \E message \in SessionFrames :
          client' = [client EXCEPT ![t].inbox = Append(@, message)]
    /\ IdleOutsideClient

\* The message event of the oldest frame on its way to the tab.
Deliver(t) ==
    /\ client[t].socket = "OPEN"
    /\ client[t].inbox # <<>>
    /\ CommitClient(t, onmessage([client[t] EXCEPT !.inbox = Tail(@)],
                                 Head(client[t].inbox)))
    /\ IdleOutsideClient

\* An awaited call settles.  A call on a transport that cleanup has closed
\* cannot succeed.
Resolve(t) ==
    /\ \E i \in 1..Len(client[t].steps) :
          /\ ~client[t].steps[i].stale
          /\ CommitClient(t, resolved(client[t], i))
    /\ IdleOutsideClient

Reject(t) ==
    /\ \E i \in 1..Len(client[t].steps) :
          /\ CommitClient(t, rejected(client[t], i))
    /\ IdleOutsideClient

\* RTCPeerConnection.connectionState moves on and the event fires.
NextTransportStates(state) ==
    CASE state = "new" -> {"connecting"}
      [] state = "connecting" -> {"connected", "failed"}
      [] state = "connected" -> {"disconnected", "failed", "closed"}
      [] state = "disconnected" -> {"connected", "failed", "closed"}
      [] OTHER -> {}

TransportState(t) ==
    /\ client[t].peerConnection # Null
    /\ \E state \in NextTransportStates(client[t].peerConnection[1].state) :
          CommitClient(t, onconnectionstatechange(client[t], state))
    /\ IdleOutsideClient

\* The answering side is given the channel (usePeerConnection.ts:154-157).
OnDataChannel(t) ==
    /\ client[t].peerConnection # Null
    /\ client[t].peerConnection[1].remote
    /\ client[t].dataChannel = Null
    /\ CommitClient(t, setupDataChannel(client[t], "connecting"))
    /\ IdleOutsideClient

\* The channel the ref points to opens.
ChannelOpens(t) ==
    /\ client[t].dataChannel = Some("connecting")
    /\ client[t].peerConnection # Null
    /\ client[t].peerConnection[1].remote
    /\ CommitClient(t, channelOnOpen([client[t] EXCEPT !.dataChannel = Some("open")]))
    /\ IdleOutsideClient

\* The channel the ref points to is closed by the other side.
ChannelCloses(t) ==
    /\ client[t].dataChannel = Some("open")
    /\ CommitClient(t, channelOnClose([client[t] EXCEPT !.dataChannel = Some("closed")]))
    /\ IdleOutsideClient

\* The close event of a channel the controller has closed and let go of.
ReleasedChannelCloses(t) ==
    /\ client[t].released # <<>>
    /\ CommitClient(t, channelOnClose([client[t] EXCEPT !.released = Tail(@)]))
    /\ IdleOutsideClient

\* The provider has connected and the server has greeted it.
Connected == onmessage(onopen(connect(NewClient)), ConnectedMsg(1))

PeerInit ==
    /\ client = [t \in Tabs |-> IF t = 1 THEN Connected ELSE NewClient]
    /\ ServerIdle
    /\ CryptoIdle
    /\ EngineIdle

PeerNext ==
    \E t \in {1} :
        \/ ServerFrame(t) \/ Deliver(t)
        \/ Resolve(t) \/ Reject(t)
        \/ TransportState(t) \/ OnDataChannel(t)
        \/ ChannelOpens(t) \/ ChannelCloses(t) \/ ReleasedChannelCloses(t)

PeerSpec == PeerInit /\ [][PeerNext]_vars

(***************************************************************************)
(* The signaling server with two tabs.  Every tab connects once; the      *)
(* connection the server accepts n-th is client n there, so tab 1         *)
(* connects first.  Room codes do not collide.                             *)
(***************************************************************************)
\* The frames a handler wrote reach the sockets they were written to.
Written(cl, out) ==
    [t \in Tabs |->
        [cl[t] EXCEPT !.inbox =
            @ \o [i \in 1..Len(SelectSeq(out, LAMBDA o : o.to = t)) |->
                     SelectSeq(out, LAMBDA o : o.to = t)[i].msg]]]

\* The server accepts the tab's connection (src/unnamed/part_000:203-207)
\* and the tab's socket opens.
Accept(t) ==
    /\ client[t].socket = "CONNECTING"
    /\ t = nextClientId + 1
    /\ LET st == OnConnection(HandlerState(clients, rooms), t)
           cl == [client EXCEPT ![t] = render(client[t], onopen(client[t]))]
       IN /\ clients' = st.clients
          /\ rooms' = st.rooms
          /\ client' = Written(cl, st.out)
    /\ nextClientId' = t
    /\ UNCHANGED <<crashed, sent, last, before, cryptoVars, engineVars>>

\* The server handles the oldest frame the tab has sent
\* (src/unnamed/part_000:209-211).
ServerReceive(t) ==
    /\ t \in DOMAIN clients
    /\ client[t].tx # <<>>
    /\ \E uuid \in UuidsDrawn(Head(client[t].tx)) :
          /\ generateRoomId(uuid) \notin DOMAIN rooms
          /\ LET st == handleMessage(HandlerState(clients, rooms), t,
                                     Head(client[t].tx), uuid)
                 cl == [client EXCEPT ![t].tx = Tail(@)]
             IN /\ clients' = st.clients
                /\ rooms' = st.rooms
                /\ client' = Written(cl, st.out)
    /\ UNCHANGED <<nextClientId, crashed, sent, last, before, cryptoVars, engineVars>>

SessionInit ==
    /\ client = [t \in Tabs |-> NewClient]
    /\ ServerIdle
    /\ CryptoIdle
    /\ EngineIdle

SessionNext ==
    \E t \in Tabs :
        \/ ProviderMount(t) \/ Accept(t) \/ ServerReceive(t) \/ Deliver(t)
        \/ UserCreateRoom(t) \/ UserJoinRoom(t) \/ UserLeaveRoom(t)
        \/ Resolve(t)

SessionSpec == SessionInit /\ [][SessionNext]_vars
(***************************************************************************)
(* Properties of the signaling server.  They are read in the state a      *)
(* handler leaves: last is the event, before the maps it found, sent the  *)
(* frames it wrote.                                                        *)
(***************************************************************************)
Requester == last.client

Got(type) ==
    last.ev = "message" /\ last.raw.syntax = "object" /\ last.raw.type = Some(type)

RoomBefore(c) == before.clients[c].roomId

Unchanged == clients = before.clients /\ rooms = before.rooms

OnlyErrorTo(c, code) ==
    /\ Len(sent) = 1
    /\ sent[1].to = c
    /\ sent[1].msg.type = "error"
    /\ sent[1].msg.code = code

MemberSets(rs, c) == {r \in DOMAIN rs : c \in Members(rs[r])}

\* What leaving does to the rooms and to the other occupant: the leaver
\* is out of its room's member set, the room is gone if nobody is left,
\* one peer-left goes to an occupant that is left, every other room is as
\* it was.
LeaveEffect(c) ==
    LET r == RoomBefore(c) IN
    IF r = Null \/ r \notin DOMAIN before.rooms
    THEN rooms = before.rooms /\ sent = <<>>
    ELSE LET remaining == Members(before.rooms[r]) \ {c} IN
         /\ DOMAIN rooms = IF remaining = {} THEN DOMAIN before.rooms \ {r}
                                             ELSE DOMAIN before.rooms
         /\ \A q \in DOMAIN rooms : q # r => rooms[q] = before.rooms[q]
         /\ remaining = {} => sent = <<>>
         /\ remaining # {} =>
               /\ Members(rooms[r]) = remaining
               /\ rooms[r].creatorId = before.rooms[r].creatorId
               /\ Len(sent) = 1
               /\ sent[1].to \in remaining
               /\ sent[1].msg = PeerLeftMsg

\* C1: every room in the rooms map has exactly one or two members, after
\* any sequence of create-room, join-room, leave-room, relay and close
\* events; a room with no member or with three is never present.
C1_RoomsHoldOneOrTwo ==
    \A r \in DOMAIN rooms :
        /\ Len(rooms[r].clients) \in {1, 2}
        /\ Cardinality(Members(rooms[r])) = Len(rooms[r].clients)

C1_Witness ==
    /\ last.ev = "close"
    /\ \E r \in DOMAIN rooms :
          /\ r \in DOMAIN before.rooms
          /\ Len(before.rooms[r].clients) = 2
          /\ Len(rooms[r].clients) = 1

\* C2: a client id is in the member set of at most one room; create-room
\* and join-room from a client whose record names a room are answered
\* with ALREADY_IN_ROOM alone and change neither map.
C2_OneRoomPerClient ==
    /\ \A c \in 1..nextClientId : Cardinality(MemberSets(rooms, c)) <= 1
    /\ (Got("create-room") \/ Got("join-room")) /\ RoomBefore(Requester) # Null =>
          OnlyErrorTo(Requester, "ALREADY_IN_ROOM") /\ Unchanged

C2_Witness ==
    /\ Got("create-room")
    /\ RoomBefore(Requester) # Null
    /\ OnlyErrorTo(Requester, "ALREADY_IN_ROOM")
    /\ Cardinality(MemberSets(rooms, Requester)) = 1

\* C3: a successful create-room takes a code no existing room has, and
\* leaves every existing room (members and creator) as it was.
C3_CreateRoomPicksFreshCode ==
    Got("create-room") /\ RoomBefore(Requester) = Null =>
        /\ clients[Requester].roomId \notin DOMAIN before.rooms
        /\ \A r \in DOMAIN before.rooms :
              r \in DOMAIN rooms /\ rooms[r] = before.rooms[r]

\* C4: a join-room carrying a code fails with ALREADY_IN_ROOM if the
\* requester is in a room, else ROOM_NOT_FOUND if no room has the
\* uppercased code, else ROOM_FULL if that room has two members; then the
\* requester gets that one error, nobody else gets anything, and neither
\* map changes.
JoinKey == ToUpperCase(last.raw.roomId[1])

JoinFailure ==
    CASE RoomBefore(Requester) # Null -> "ALREADY_IN_ROOM"
      [] RoomBefore(Requester) = Null /\ JoinKey \notin DOMAIN before.rooms ->
            "ROOM_NOT_FOUND"
      [] RoomBefore(Requester) = Null /\ JoinKey \in DOMAIN before.rooms
           /\ Cardinality(Members(before.rooms[JoinKey])) = 2 -> "ROOM_FULL"
      [] OTHER -> "none"

C4_JoinRoomFailures ==
    Got("join-room") /\ last.raw.roomId # Null /\ JoinFailure # "none" =>
        OnlyErrorTo(Requester, JoinFailure) /\ Unchanged

C4_Witness ==
    /\ Got("join-room")
    /\ last.raw.roomId # Null
    /\ last.raw.roomId[1] # JoinKey
    /\ JoinFailure = "ROOM_FULL"
    /\ OnlyErrorTo(Requester, "ROOM_FULL")

\* C5: a join-room that succeeds adds the joiner to the room, writes
\* room-joined with isInitiator = false to the joiner and then one
\* peer-joined to the occupant that was there, and nothing to anyone else.
C5_JoinRoomSuccess ==
    Got("join-room") /\ last.raw.roomId # Null /\ JoinFailure = "none" =>
        LET occupants == Members(before.rooms[JoinKey]) IN
        /\ Members(rooms[JoinKey]) = occupants \cup {Requester}
        /\ clients[Requester].roomId = JoinKey
        /\ Len(sent) = 2
        /\ sent[1] = [to |-> Requester, msg |-> RoomJoinedMsg(JoinKey, FALSE)]
        /\ sent[2].to \in occupants
        /\ sent[2].msg = PeerJoinedMsg

C5_Witness ==
    /\ Got("join-room")
    /\ last.raw.roomId # Null
    /\ JoinFailure = "none"
    /\ Len(sent) = 2
    /\ sent[2].msg = PeerJoinedMsg

\* C6: leave-room from a client whose record names a room takes it out of
\* the room, writes one peer-left to an occupant that is left if there is
\* one, and deletes the room if it is empty; leave-room from a client in no
\* room (a second leave-room) changes nothing and writes nothing.
C6_LeaveRoomIdempotent ==
    Got("leave-room") =>
        IF RoomBefore(Requester) = Null
        THEN Unchanged /\ sent = <<>>
        ELSE /\ LeaveEffect(Requester)
             /\ MemberSets(rooms, Requester) = {}
             /\ clients = [before.clients EXCEPT ![Requester].roomId = Null]

C6_Witness ==
    /\ Got("leave-room")
    /\ RoomBefore(Requester) # Null
    /\ Len(sent) = 1
    /\ sent[1].msg = PeerLeftMsg
    /\ clients[Requester].roomId = Null

\* C7: an offer, answer or ice-candidate from a member of a room with two
\* members is written once, type and payload as received, to the other
\* member and to nobody else; from a client in no room the answer is
\* NOT_IN_ROOM, from a client alone in its room NO_PEER; neither map
\* changes.
SamePayload(msg, raw) ==
    /\ msg.type = raw.type[1]
    /\ IF raw.type[1] = "ice-candidate"
       THEN /\ DOMAIN msg = {"type", "candidate", "sdpMid", "sdpMLineIndex"}
            /\ msg.candidate = raw.candidate
            /\ msg.sdpMid = raw.sdpMid
            /\ msg.sdpMLineIndex = raw.sdpMLineIndex
       ELSE /\ DOMAIN msg = {"type", "sdp"}
            /\ msg.sdp = raw.sdp

C8_CloseActsAsLeave ==
    last.ev = "close" =>
        /\ LeaveEffect(Requester)
        /\ clients = Remove(before.clients, Requester)
        /\ MemberSets(rooms, Requester) = {}

C8_Witness ==
    /\ last.ev = "close"
    /\ Len(sent) = 1
    /\ sent[1].msg = PeerLeftMsg
    /\ sent[1].to \in DOMAIN clients
    /\ MemberSets(rooms, sent[1].to) # {}

\* C9: a frame that is not JSON is answered with one INVALID_JSON, a JSON
\* frame whose type is none of the six accepted ones (a value without a
\* type member included) with one UNKNOWN_MESSAGE; the sender stays
\* connected, the server goes on, and neither map changes.
TypeNotAccepted(raw) ==
    \/ raw.syntax \in {"null", "scalar"}
    \/ raw.syntax = "object" /\ (raw.type = Null \/ raw.type[1] \notin AcceptedTypes)

C9_BadFramesAnswered ==
    last.ev = "message" =>
        /\ last.raw.syntax = "malformed" =>
              OnlyErrorTo(Requester, "INVALID_JSON") /\ Unchanged /\ ~crashed
        /\ TypeNotAccepted(last.raw) =>
              OnlyErrorTo(Requester, "UNKNOWN_MESSAGE") /\ Unchanged /\ ~crashed

(***************************************************************************)
(* Properties of the encryption context.                                   *)
(***************************************************************************)
\* C10: under one key no IV is used for two encryptions: over all chunks
\* either peer encrypts, whatever the two session prefixes are, the
\* (key, IV) pairs are pairwise distinct.
C10_NoIvReuse ==
    \A pair \in BagToSet(ivLog) : CopiesIn(pair, ivLog) = 1

(***************************************************************************)
(* Properties of the file transfer engine.                                 *)
(***************************************************************************)

\* What Blob([...chunks]) has to hold for the file to be the sender's:
\* every slice sendNextChunk cuts from it, in order.
SourceChunks(id, size) ==
    [i \in 1..Ceil(size, CHUNK_SIZE) |->
        Slice([id |-> id, size |-> size], (i - 1) * CHUNK_SIZE, i * CHUNK_SIZE)]

\* C11: round trip.  Every file an engine has delivered through
\* onFileReceived consists of exactly the sender's bytes: all the slices
\* of the source file, in order, nothing missing, nothing foreign.
C11_RoundTrip ==
    \A p \in Peers :
        \A i \in 1..Len(eng[p].received) :
            LET file == eng[p].received[i]
            IN file.chunks = SourceChunks(file.id, file.size)

\* The files an engine has handed to the application.
Delivered(p) == {eng[p].received[i].id : i \in 1..Len(eng[p].received)}

\* The message event about to be dispatched at q is a FILE_CHUNK whose
\* file has no reassembly record there.
UnknownChunkNext(q) ==
    /\ channel[q].readyState = "open"
    /\ eng[q].sendChannel
    /\ channel[Other(q)].drained > 0
    /\ Head(channel[Other(q)].wire).type = "FILE_CHUNK"
    /\ ~HasFile(eng[q].receivingFiles, Head(channel[Other(q)].wire).fileId)

FileMessageTypes ==
    {"FILE_INFO", "FILE_CHUNK", "FILE_COMPLETE", "FILE_ACCEPT", "FILE_REJECT"}

\* C13: every FILE_INFO, FILE_CHUNK, FILE_COMPLETE, FILE_ACCEPT and
\* FILE_REJECT message an engine has put on the data channel was sent
\* while that engine's isEncryptionReady flag was true.
C13_NoFileMessageBeforeReady ==
    \A p \in Peers :
        \A i \in 1..Len(channel[p].txLog) :
            channel[p].txLog[i].msg.type \in FileMessageTypes => channel[p].txLog[i].ready

\* What p has emitted as a sender of files, in order.
FileLog(p) ==
    SelectSeq(channel[p].txLog, LAMBDA x :
        x.msg.type \in {"FILE_INFO", "FILE_CHUNK", "FILE_COMPLETE"})

\* In log, every chunk follows the FILE_INFO of its file (index 0) or the
\* chunk of its file with the index before its own, and every
\* FILE_COMPLETE follows a FILE_INFO and all the chunks that FILE_INFO
\* announced.
InWireOrder(log) ==
    \A i \in 1..Len(log) :
        LET m == log[i].msg
        IN /\ m.type = "FILE_CHUNK" =>
                /\ i > 1
                /\ IF m.chunkIndex = 0
                   THEN /\ log[i - 1].msg.type = "FILE_INFO"
                        /\ log[i - 1].msg.info.id = m.fileId
                   ELSE /\ log[i - 1].msg.type = "FILE_CHUNK"
                        /\ log[i - 1].msg.fileId = m.fileId
                        /\ log[i - 1].msg.chunkIndex = m.chunkIndex - 1
           /\ m.type = "FILE_COMPLETE" =>
                \E j \in 1..(i - 1) :
                    /\ log[j].msg.type = "FILE_INFO"
                    /\ log[j].msg.info.totalChunks = i - j - 1
                    /\ \A k \in (j + 1)..(i - 1) : log[k].msg.type = "FILE_CHUNK"

\* The step puts a FILE_INFO on p's side of the channel.
EmitsFileInfo(p) ==
    \E i \in (Len(channel[p].txLog) + 1)..Len(channel'[p].txLog) :
        channel'[p].txLog[i].msg.type = "FILE_INFO"

\* C14: wire order per sender.  Among the FILE_INFO, FILE_CHUNK and
\* FILE_COMPLETE messages of one sender, the chunks of a file follow its
\* FILE_INFO with indices 0, 1, 2, ... and are followed by FILE_COMPLETE;
\* and a FILE_INFO is emitted only when the sender has no current file,
\* that is, never before the FILE_COMPLETE of the file in hand.
C14_WireOrder ==
    /\ [](\A p \in Peers : InWireOrder(FileLog(p)))
    /\ [][\A p \in Peers : EmitsFileInfo(p) => eng[p].currentSendFile = Null]_vars

\* The message event about to be dispatched at p is the FILE_REJECT for
\* the file p has offered.
RejectNext(p) ==
    /\ channel[p].readyState = "open"
    /\ eng[p].sendChannel
    /\ channel[Other(p)].drained > 0
    /\ Head(channel[Other(p)].wire).type = "FILE_REJECT"
    /\ eng[p].currentSendFile # Null

\* C15: receiver declines.  When the sender handles the FILE_REJECT for
\* the file it has offered, it has put no FILE_CHUNK and no FILE_COMPLETE
\* of that file on the wire; it reports exactly one error, drops the
\* file and the whole queue, and leaves the channel open and the key in
\* place.
C15_ReceiverDeclines ==
    [][\A p \in Peers :
          (RejectNext(p) /\ channel'[Other(p)].wire = Tail(channel[Other(p)].wire)) =>
              /\ \A i \in 1..Len(channel[p].txLog) :
                    /\ channel[p].txLog[i].msg.type = "FILE_CHUNK" =>
                          channel[p].txLog[i].msg.fileId # eng[p].currentSendFile[1].id
                    /\ channel[p].txLog[i].msg.type = "FILE_COMPLETE" =>
                          channel[p].txLog[i].cur # CurrentId(eng[p])
              /\ eng'[p].errors = eng[p].errors + 1
              /\ eng'[p].currentSendFile = Null
              /\ eng'[p].sendQueue = <<>>
              /\ channel'[p].readyState = "open"
              /\ eng'[p].key = eng[p].key
              /\ eng'[p].isEncryptionReady = eng[p].isEncryptionReady]_vars

\* C16: backpressure bound.  The bytes buffered in a sender's end of the
\* data channel never exceed BUFFER_FULL_THRESHOLD (262144).
C16_BufferBound ==
    \A p \in Peers : bufferedAmount(p, eng[p]) <= BUFFER_FULL_THRESHOLD

\* Nothing is left to happen unless a user acts: the channel is open and
\* empty both ways, both views are mounted, no event, timer or promise is
\* pending and no offer waits for an answer.
Quiescent ==
    \A p \in Peers :
        /\ channel[p].readyState = "open"
        /\ eng[p].view = "mounted"
        /\ channel[p].wire = <<>>
        /\ ~channel[p].lowPending
        /\ eng[p].generating = 0
        /\ eng[p].importing = <<>>
        /\ eng[p].encrypting = <<>>
        /\ eng[p].decrypting = <<>>
        /\ eng[p].chunkTimers = 0
        /\ eng[p].fileTimers = 0
        /\ eng[p].pendingOffer = Null

\* The files q has accepted, while its engine has not been reset: those
\* it has delivered and those it is reassembling.
Accepted(q) ==
    {[id |-> eng[q].received[i].id, size |-> eng[q].received[i].size] :
        i \in 1..Len(eng[q].received)}
      \cup {[id |-> eng[q].receivingFiles[i].id,
             size |-> eng[q].receivingFiles[i].size] :
                i \in 1..Len(eng[q].receivingFiles)}

\* p has emitted all chunks of the file and its FILE_COMPLETE.
FullyEmitted(p, info) ==
    /\ \A c \in 0..(Ceil(info.size, CHUNK_SIZE) - 1) :
          \E i \in 1..Len(channel[p].txLog) :
              /\ channel[p].txLog[i].msg.type = "FILE_CHUNK"
              /\ channel[p].txLog[i].msg.fileId = info.id
              /\ channel[p].txLog[i].msg.chunkIndex = c
    /\ \E i \in 1..Len(channel[p].txLog) :
          /\ channel[p].txLog[i].msg.type = "FILE_COMPLETE"
          /\ channel[p].txLog[i].cur = Some(info.id)

\* The step puts a FILE_CHUNK on p's side of the channel.
EmitsChunk(p) ==
    \E i \in (Len(channel[p].txLog) + 1)..Len(channel'[p].txLog) :
        channel'[p].txLog[i].msg.type = "FILE_CHUNK"

\* C17: backpressure never stalls.  A sender pauses only when the
\* buffered bytes exceed BUFFER_FULL_THRESHOLD, emits no chunk while
\* paused, and once the open channel has drained and nothing is pending
\* any more, every file the other side accepted has had all its chunks
\* and its FILE_COMPLETE emitted.
C17_NoStall ==
    /\ [][\A p \in Peers :
             /\ (~eng[p].isPaused /\ eng'[p].isPaused) =>
                    bufferedAmount(p, eng[p]) > BUFFER_FULL_THRESHOLD
             /\ EmitsChunk(p) => ~eng[p].isPaused]_vars
    /\ [](Quiescent =>
             \A p \in Peers :
                 \A info \in Accepted(Other(p)) : FullyEmitted(p, info))

\* C18: the channel closes mid-transfer.  From the close on, the engine
\* at the closed end reports no transfer-complete and delivers no file;
\* and once its view has gone, it holds no queue, no file being sent, no
\* reassembly record and no key, and has reported an error.
C18_CloseMidTransfer ==
    /\ [][\A p \in Peers :
             (channel[p].readyState = "closed" /\ eng[p].closedMid) =>
                 /\ eng'[p].completes = eng[p].completes
                 /\ eng'[p].received = eng[p].received]_vars
    /\ [](\A p \in Peers :
             (eng[p].closedMid /\ eng[p].view = "gone") =>
                 /\ eng[p].sendQueue = <<>>
                 /\ eng[p].currentSendFile = Null
                 /\ eng[p].receivingFiles = <<>>
                 /\ eng[p].key = Null
                 /\ ~eng[p].isEncryptionReady
                 /\ eng[p].errors > 0)

\* The FileInfo records p has announced under the id.
InfosOf(p, id) ==
    {channel[p].txLog[j].msg.info : j \in {k \in 1..Len(channel[p].txLog) :
        /\ channel[p].txLog[k].msg.type = "FILE_INFO"
        /\ channel[p].txLog[k].msg.info.id = id}}

\* C19: chunk count.  A file of size s is announced with ceil(s / 65536)
\* chunks; every FILE_CHUNK on a sender's wire belongs to an announced
\* file, has an index below that count, carries the min(65536, s - 65536 *
\* index) bytes of the file at that index and is sent once; every
\* FILE_COMPLETE follows all the chunks of the file it closes and is sent
\* once for it.  So an empty file has no chunk and no chunk is empty.
C19_ChunkCount ==
    \A p \in Peers :
        \A i \in 1..Len(channel[p].txLog) :
            LET x == channel[p].txLog[i]
            IN /\ x.msg.type = "FILE_INFO" =>
                    x.msg.info.totalChunks = Ceil(x.msg.info.size, CHUNK_SIZE)
               /\ x.msg.type = "FILE_CHUNK" =>
                    /\ InfosOf(p, x.msg.fileId) # {}
                    /\ \A info \in InfosOf(p, x.msg.fileId) :
                          /\ x.msg.chunkIndex < info.totalChunks
                          /\ x.msg.encrypted.plain =
                                [file |-> info.id,
                                 start |-> x.msg.chunkIndex * CHUNK_SIZE,
                                 len |-> Min(CHUNK_SIZE,
                                             info.size - CHUNK_SIZE * x.msg.chunkIndex)]
                    /\ x.msg.encrypted.plain.len > 0
                    /\ \A j \in 1..Len(channel[p].txLog) :
                          (/\ j # i
                           /\ channel[p].txLog[j].msg.type = "FILE_CHUNK"
                           /\ channel[p].txLog[j].msg.fileId = x.msg.fileId)
                              => channel[p].txLog[j].msg.chunkIndex # x.msg.chunkIndex
               /\ x.msg.type = "FILE_COMPLETE" =>
                    /\ x.cur # Null
                    /\ \A info \in InfosOf(p, x.cur[1]) :
                          \A c \in 0..(info.totalChunks - 1) :
                              \E j \in 1..(i - 1) :
                                  /\ channel[p].txLog[j].msg.type = "FILE_CHUNK"
                                  /\ channel[p].txLog[j].msg.fileId = info.id
                                  /\ channel[p].txLog[j].msg.chunkIndex = c
                    /\ \A j \in 1..Len(channel[p].txLog) :
                          (j # i /\ channel[p].txLog[j].msg.type = "FILE_COMPLETE")
                              => channel[p].txLog[j].cur # x.cur

\* The ENCRYPTION_KEY messages among msgs.
KeyMessages(msgs) == SelectSeq(msgs, LAMBDA m : m.type = "ENCRYPTION_KEY")

\* The channel is open and both engines are attached to it; the
\* initiator's key has been generated, no key message is on its way and
\* no import is pending: the key exchange has nothing left to do.
KeyExchangeSettled ==
    /\ \A p \in Peers :
          /\ channel[p].readyState = "open"
          /\ eng[p].view = "mounted"
          /\ eng[p].sendChannel
          /\ eng[p].generating = 0
          /\ eng[p].importing = <<>>
          /\ KeyMessages(channel[p].wire) = <<>>

\* C20: key exchange completes.  The initiator emits at most one
\* ENCRYPTION_KEY message and the joiner none; and when the exchange has
\* nothing left to do, exactly one was emitted and both engines are ready
\* and hold the same key.
C20_KeyExchangeCompletes ==
    /\ Len(KeyMessages([i \in 1..Len(channel["initiator"].txLog) |->
                            channel["initiator"].txLog[i].msg])) <= 1
    /\ KeyMessages([i \in 1..Len(channel["joiner"].txLog) |->
                        channel["joiner"].txLog[i].msg]) = <<>>
    /\ KeyExchangeSettled =>
          /\ Len(KeyMessages([i \in 1..Len(channel["initiator"].txLog) |->
                                  channel["initiator"].txLog[i].msg])) = 1
          /\ \A p \in Peers : eng[p].isEncryptionReady
          /\ eng["initiator"].key # Null
          /\ eng["initiator"].key = eng["joiner"].key


(***************************************************************************)
(* Key exchange against a remote endpoint that sends ENCRYPTION_KEY more   *)
(* than once.  What arrives on the data channel is whatever the other end  *)
(* of the connection sent; handleMessage (src/unnamed/part_002:202-230)    *)
(* accepts an ENCRYPTION_KEY message at any time.  No files are picked.    *)
(***************************************************************************)

\* The endpoint at the initiator's end of the channel, the one that makes
\* keys, sends one more ENCRYPTION_KEY message carrying a fresh key
\* (src/unnamed/part_002:63-67 run once more at that end).
RemoteKey ==
    LET p == "initiator" IN
    /\ nextKey < MaxKeys
    /\ channel[p].readyState = "open"
    /\ channel' = [channel EXCEPT
          ![p].wire = Append(@, KeyMsg(nextKey + 1)),
          ![p].txLog = Append(@, [msg |-> KeyMsg(nextKey + 1),
                                  ready |-> TRUE, cur |-> Null])]
    /\ nextKey' = nextKey + 1
    /\ UNCHANGED <<eng, disk>>
    /\ IdleOutsideEngine

RekeyInit ==
    /\ eng = [p \in Peers |-> NewEngine]
    /\ channel = [p \in Peers |->
                     [readyState |-> "open", wire |-> <<>>, drained |-> 0,
                      lowPending |-> FALSE, txLog |-> <<>>]]
    /\ disk = [p \in Peers |-> <<>>]
    /\ ServerIdle
    /\ CryptoIdle
    /\ ClientIdle

RekeyNext ==
    \/ \E p \in Peers :
          \/ Mount(p) \/ Unmount(p) \/ ChannelClose(p)
          \/ Drain(p) \/ Dispatch(p)
          \/ KeyGenerated(p) \/ KeyImported(p)
    \/ RemoteKey

RekeySpec == RekeyInit /\ [][RekeyNext]_vars

\* C21: the key is never rotated.  Once an engine holds a key (generated
\* locally or imported from an ENCRYPTION_KEY message), no step other than
\* a reset of the engine changes the key it encrypts and decrypts with; in
\* particular no ENCRYPTION_KEY message that arrives later does, whether
\* the import of the first one has settled or not.
C21_KeyNeverRotated ==
    [][\A p \in Peers :
          (eng[p].key # Null /\ eng'[p].key # Null) => eng'[p].key = eng[p].key]_vars

\* The message event about to be dispatched at q is a FILE_INFO while
\* the offer of an earlier one is still waiting for the user's answer.
SecondOfferNext(q) ==
    /\ channel[q].readyState = "open"
    /\ eng[q].sendChannel
    /\ channel[Other(q)].drained > 0
    /\ Head(channel[Other(q)].wire).type = "FILE_INFO"
    /\ eng[q].pendingOffer # Null

\* The messages q puts on the channel in this step.
SentInStep(q) ==
    SubSeq(channel'[q].txLog, Len(channel[q].txLog) + 1, Len(channel'[q].txLog))

\* C27: the accept prompt is serialized.  When a FILE_INFO is handled
\* while an offer is pending, the engine sends exactly one FILE_REJECT and
\* changes nothing else: the pending offer stays the one prompted for and
\* no reassembly record is made.  An engine sends FILE_ACCEPT or FILE_REJECT
\* only while an offer is pending, and the user's answer to the pending
\* offer (the offer is gone afterwards and the view is still there) sends
\* at most one message, a FILE_ACCEPT with one record made for the offered
\* file or a FILE_REJECT with none.
C27_PromptSerialized ==
    /\ [][\A q \in Peers :
             (SecondOfferNext(q) /\ channel'[Other(q)].wire = Tail(channel[Other(q)].wire))
                 => /\ eng'[q].pendingOffer = eng[q].pendingOffer
                    /\ eng'[q].receivingFiles = eng[q].receivingFiles
                    /\ eng'[q].currentReceiveFileId = eng[q].currentReceiveFileId
                    /\ Len(SentInStep(q)) = 1
                    /\ SentInStep(q)[1].msg = FileRejectMsg]_vars
    /\ [][\A q \in Peers :
             (\E i \in 1..Len(SentInStep(q)) :
                  SentInStep(q)[i].msg \in {FileAcceptMsg, FileRejectMsg})
                 => eng[q].pendingOffer # Null]_vars
    /\ [][\A q \in Peers :
             (eng[q].pendingOffer # Null /\ eng'[q].pendingOffer = Null
                  /\ eng'[q].view = "mounted")
                 => /\ Len(SentInStep(q)) <= 1
                    /\ channel[q].readyState = "open" => Len(SentInStep(q)) = 1
                    /\ \/ /\ SentInStep(q) # <<>> => SentInStep(q)[1].msg = FileAcceptMsg
                          /\ eng'[q].receivingFiles =
                                SetFile(eng[q].receivingFiles,
                                        [id |-> eng[q].pendingOffer[1].id,
                                         size |-> eng[q].pendingOffer[1].size,
                                         totalChunks |-> eng[q].pendingOffer[1].totalChunks,
                                         receivedChunks |-> {}, bytesReceived |-> 0])
                       \/ /\ SentInStep(q) # <<>> => SentInStep(q)[1].msg = FileRejectMsg
                          /\ eng'[q].receivingFiles = eng[q].receivingFiles]_vars

\* A later offer (files are numbered in the order they are offered) has
\* been rejected while the offer still pending was waiting, and the
\* pending one can still be answered.
C27_Witness ==
    \E q \in Peers :
        /\ eng[q].pendingOffer # Null
        /\ eng[q].view = "mounted"
        /\ channel[q].readyState = "open"
        /\ \E d \in eng[q].declined : d > eng[q].pendingOffer[1].id
        /\ \E i \in 1..Len(channel[q].txLog) : channel[q].txLog[i].msg = FileRejectMsg

(***************************************************************************)
(* One sender's encryption context over its life: the initiator's          *)
(* EncryptionManager is given keys, encrypts and is reset; the key message *)
(* is never taken off the wire, so the joiner's context stays as           *)
(* constructed.                                                            *)
(***************************************************************************)
SenderResets ==
    /\ ResetEncryption
    /\ sessionId'["joiner"] = sessionId["joiner"]

IvNext == InitializeEncryption \/ EncryptChunk \/ SenderResets

IvSpec == CryptoInit /\ [][IvNext]_vars

\* The number a sequence of bytes spells, most significant byte first.
RECURSIVE FromBigEndian(_)
FromBigEndian(bytes) ==
    IF bytes = <<>> THEN 0
    ELSE 256 * FromBigEndian(SubSeq(bytes, 1, Len(bytes) - 1)) + bytes[Len(bytes)]

\* C30: per-sender IV sequence.  Every encryption context starts with
\* counter 0.  A step that encrypts a chunk is made by one peer: the IV it
\* hands to the cipher is 12 bytes long, its first 4 bytes are that peer's
\* session prefix and its last 8 bytes spell the peer's counter before the
\* step; the counter goes up by exactly one and prefix and key stay.  No
\* other step changes a counter, except a reset, which puts it back to 0
\* and drops the key.
C30_IvSequence ==
    /\ \A p \in Peers : counter[p] = 0
    /\ [][ivLog' # ivLog =>
             \E p \in Peers :
                 /\ counter'[p] = counter[p] + 1
                 /\ counter'[Other(p)] = counter[Other(p)]
                 /\ sessionId' = sessionId
                 /\ encKey' = encKey
                 /\ encKey[p] # Null
                 /\ \E iv \in {pair.iv : pair \in BagToSet(ivLog')} :
                       /\ ivLog' = ivLog (+) SetToBag({[key |-> encKey[p][1], iv |-> iv]})
                       /\ Len(iv) = IV_LENGTH
                       /\ SubSeq(iv, 1, SESSION_ID_LENGTH) = sessionId[p]
                       /\ FromBigEndian(SubSeq(iv, SESSION_ID_LENGTH + 1, IV_LENGTH))
                             = counter[p]]_vars
    /\ [][\A p \in Peers :
             counter'[p] # counter[p] =>
                 \/ counter'[p] = counter[p] + 1 /\ ivLog' # ivLog
                 \/ counter'[p] = 0 /\ encKey'[p] = Null]_vars

\* The sender has encrypted more chunks than one context encrypts without
\* a reset, so its context has been reset, given a key and has encrypted
\* again, and it has encrypted MaxChunks chunks since its last reset.
C30_Witness ==
    /\ counter["initiator"] = MaxChunks
    /\ BagCardinality(ivLog) > MaxChunks

\* The delay the specification gives the n-th consecutive reconnect
\* attempt, in milliseconds.
Backoff(n) ==
    CASE n = 1 -> 1000 [] n = 2 -> 2000 [] n = 3 -> 4000 [] n = 4 -> 8000
      [] OTHER -> 16000

\* C28: signaling reconnect backoff.  When the socket closes for the n-th
\* time since it last opened (or since the provider mounted), the
\* reconnect is scheduled after 1 s, 2 s, 4 s, 8 s, 16 s for n = 1..5 and
\* 16 s for every n above 5; the first close after a successful open
\* counts as n = 1 again.
C28_ReconnectBackoff ==
    [][\A t \in Tabs :
          (client[t].socket # "CLOSED" /\ client'[t].socket = "CLOSED")
              => client'[t].reconnectTimeout = Some(Backoff(client[t].failures + 1))]_vars

\* The socket has failed more than five times in a row, after it had been
\* open and closed before.
C28_Witness ==
    \E t \in Tabs :
        /\ client[t].failures = MaxAttempts
        /\ client[t].reconnectTimeout = Some(16000)
        /\ client[t].clientId # Null

\* C29: signaling outbound queue.  What was handed to the socket followed
\* by what waits in the queue is exactly what was passed to send, in the
\* order it was passed (nothing dropped, doubled or reordered); when the
\* socket opens the whole queue is handed to it in that step, and while
\* the socket is open the queue is empty.
C29_OutboundQueue ==
    /\ [](\A t \in Tabs :
             /\ client[t].tx \o client[t].messageQueue = client[t].submitted
             /\ client[t].socket = "OPEN" => client[t].messageQueue = <<>>)
    /\ [][\A t \in Tabs :
             (client[t].socket # "OPEN" /\ client'[t].socket = "OPEN")
                 => client'[t].tx = client[t].tx \o client[t].messageQueue]_vars

\* After a failed connect the socket is connecting again; one message has
\* been handed to an earlier connection and two different ones, passed to
\* send since, wait in the queue.
C29_Witness ==
    \E t \in Tabs :
        /\ client[t].socket = "CONNECTING"
        /\ client[t].failures > 0
        /\ Len(client[t].tx) = 1
        /\ Len(client[t].messageQueue) = 2
        /\ client[t].messageQueue[1] # client[t].messageQueue[2]

\* The message event about to be dispatched at tab t is a peer-left.
PeerLeftNext(t) ==
    /\ client[t].socket = "OPEN"
    /\ client[t].inbox # <<>>
    /\ Head(client[t].inbox).type = "peer-left"

\* C22: peer-left.  The step that handles a peer-left message leaves the
\* controller without data channel and peer transport, with an empty
\* pending-ICE buffer and in state idle; and from then until the next
\* handshake begins the state is idle and neither channel nor transport is
\* held, whatever events the closed channel still fires.
C22_PeerLeftIdle ==
    /\ [][\A t \in Tabs :
             (PeerLeftNext(t) /\ client'[t].inbox = Tail(client[t].inbox))
                 => /\ client'[t].dataChannel = Null
                    /\ client'[t].peerConnection = Null
                    /\ client'[t].pendingCandidates = <<>>
                    /\ client'[t].peerState = "idle"]_vars
    /\ [](\A t \in Tabs :
             client[t].afterPeerLeft
                 => /\ client[t].peerState = "idle"
                    /\ client[t].dataChannel = Null
                    /\ client[t].peerConnection = Null)

\* The handshake errors the controller reports.
HandshakeErrors ==
    {"Failed to create offer", "Failed to handle offer", "Failed to handle answer"}

\* C23: transport state.  The controller never goes on holding a peer
\* transport that has reported failed or closed: the report makes it
\* release transport and data channel and discard the pending-ICE buffer.
\* A report of disconnected changes nothing but the state shown: the
\* transport, the data channel and the pending-ICE buffer stay as they are.
C23_TransportState ==
    /\ [](\A t \in Tabs :
             client[t].peerConnection # Null
                 => client[t].peerConnection[1].state \notin {"failed", "closed"})
    /\ [][\A t \in Tabs :
             (/\ client[t].peerConnection # Null
              /\ client[t].peerConnection[1].state # "disconnected"
              /\ client'[t].peerConnection # Null
              /\ client'[t].peerConnection[1].state = "disconnected")
                 => /\ client'[t].peerConnection[1].remote = client[t].peerConnection[1].remote
                    /\ client'[t].dataChannel = client[t].dataChannel
                    /\ client'[t].pendingCandidates = client[t].pendingCandidates]_vars

\* C24: handshake failures.  A step in which the controller reports a
\* handshake error reports exactly that one error, leaves the controller
\* without peer transport and data channel, and leaves the signaling
\* socket, the signaling state and the room as they were.
C24_HandshakeFailure ==
    [][\A t \in Tabs :
          (/\ Len(client'[t].errors) > Len(client[t].errors)
           /\ client'[t].errors[Len(client'[t].errors)] \in HandshakeErrors)
              => /\ client'[t].errors =
                       Append(client[t].errors, client'[t].errors[Len(client'[t].errors)])
                 /\ client'[t].peerConnection = Null
                 /\ client'[t].dataChannel = Null
                 /\ client'[t].socket = client[t].socket
                 /\ client'[t].connectionState = client[t].connectionState
                 /\ client'[t].roomId = client[t].roomId]_vars

\* The server holds tab t as the creator of the room t is a member of.
ServerHoldsAsCreator(t) ==
    /\ t \in DOMAIN clients
    /\ clients[t].roomId # Null
    /\ clients[t].roomId \in DOMAIN rooms
    /\ t \in Members(rooms[clients[t].roomId])
    /\ rooms[clients[t].roomId].creatorId = t

\* Nothing is on its way between tab t and the server, in either
\* direction.
InSync(t) ==
    /\ client[t].socket = "OPEN"
    /\ client[t].inbox = <<>>
    /\ client[t].tx = <<>>
    /\ client[t].messageQueue = <<>>

\* C25: whenever a tab has processed every frame the server has sent it
\* (and the server every frame of the tab), the tab's isInitiator flag is
\* true exactly if the server holds the tab as the creator of the room it
\* is a member of.
C25_InitiatorFlag ==
    \A t \in Tabs : InSync(t) => (client[t].isInitiator <=> ServerHoldsAsCreator(t))

\* The message event about to be dispatched at tab t is a peer-joined.
PeerJoinedNext(t) ==
    /\ client[t].socket = "OPEN"
    /\ client[t].inbox # <<>>
    /\ Head(client[t].inbox).type = "peer-joined"

\* The offers among the frames a tab has passed to send.
Offers(frames) == SelectSeq(frames, LAMBDA f : f.type = Some("offer"))

\* C26: handshake start.  When peer-joined is delivered to a tab the
\* server holds as the creator of its room (nothing else being on its way
\* between the two, so that the frame is about that room), the tab begins
\* the handshake
\* in that step: one call of initiateConnection is under way more than
\* before (it ends with the offer being sent); when it is delivered to a
\* tab that did not create its room, no handshake begins.  A tab sends an
\* offer only as the last step of such a call, one offer per call.
C26_HandshakeStart ==
    /\ [][\A t \in Tabs :
             (/\ PeerJoinedNext(t)
              /\ client[t].tx = <<>>
              /\ client[t].messageQueue = <<>>
              /\ Tail(client[t].inbox) = <<>>
              /\ client'[t].inbox = <<>>)
                 => IF ServerHoldsAsCreator(t)
                    THEN /\ Len(client'[t].steps) = Len(client[t].steps) + 1
                         /\ client'[t].steps[Len(client'[t].steps)]
                               = Step("initiateConnection", "createOffer")
                    ELSE client'[t].steps = client[t].steps]_vars
    /\ [][\A t \in Tabs :
             Offers(client'[t].submitted) # Offers(client[t].submitted)
                 => /\ Len(Offers(client'[t].submitted))
                          = Len(Offers(client[t].submitted)) + 1
                    /\ \E i \in 1..Len(client[t].steps) :
                          /\ client[t].steps[i].fn = "initiateConnection"
                          /\ client[t].steps[i].at = "setLocalDescription"
                          /\ client'[t].steps = RemoveAt(client[t].steps, i)]_vars

(***************************************************************************)
(* Bookkeeping of the signaling server and what its clients see of it.     *)
(***************************************************************************)
\* C36: the server's bookkeeping is consistent.  For every client record
\* and every code r: the record's roomId is r exactly if the rooms map
\* holds a room under r whose member set contains the client; every
\* member of every room has a client record.
C36_BookkeepingConsistent ==
    /\ \A c \in DOMAIN clients :
          /\ clients[c].roomId # Null =>
                /\ clients[c].roomId \in DOMAIN rooms
                /\ c \in Members(rooms[clients[c].roomId])
          /\ \A r \in DOMAIN rooms :
                c \in Members(rooms[r]) => clients[c].roomId = r
    /\ \A r \in DOMAIN rooms : Members(rooms[r]) \subseteq DOMAIN clients

\* Clients a and b are members of one room, in the maps the handler found
\* or in the maps it left.
Roommates(a, b) ==
    \/ \E r \in DOMAIN before.rooms : {a, b} \subseteq Members(before.rooms[r])
    \/ \E r \in DOMAIN rooms : {a, b} \subseteq Members(rooms[r])

\* C39: room isolation.  Whatever a handler run for a client's frame or
\* close writes to another client goes to a member of the room the
\* client is in, and the handler leaves every room the client is not a
\* member of (before or after) as it was.
C39_RoomIsolation ==
    last.ev \in {"message", "close"} /\ ~crashed =>
        /\ \A i \in 1..Len(sent) :
              sent[i].to # Requester => Roommates(Requester, sent[i].to)
        /\ \A r \in DOMAIN before.rooms :
              (/\ Requester \notin Members(before.rooms[r])
               /\ r \in DOMAIN rooms => Requester \notin Members(rooms[r]))
                  => r \in DOMAIN rooms /\ rooms[r] = before.rooms[r]

\* The frame is a create-room or a join-room.
EntersRoom(frame) == frame.type \in {Some("create-room"), Some("join-room")}

\* C37: client and server agree on room membership.  Whenever nothing is
\* on its way between a tab and the server, the tab's roomId is non-null
\* exactly if the server's record of the tab names a room, and then both
\* name the same code.  And when the server handles a create-room or
\* join-room of a tab whose roomId is null, that frame being all that was
\* on its way, it does not answer ALREADY_IN_ROOM.
C37_MembershipAgreed ==
    /\ \A t \in Tabs :
          InSync(t) /\ t \in DOMAIN clients =>
              client[t].roomId = IF clients[t].roomId = Null
                                 THEN Null ELSE Some(clients[t].roomId)
    /\ [][\A t \in Tabs :
             (/\ client[t].socket = "OPEN"
              /\ client[t].roomId = Null
              /\ client[t].inbox = <<>>
              /\ client[t].messageQueue = <<>>
              /\ Len(client[t].tx) = 1
              /\ EntersRoom(Head(client[t].tx))
              /\ client'[t].tx = <<>>)
                 => \A i \in 1..Len(client'[t].inbox) :
                       client'[t].inbox[i].type = "error"
                           => client'[t].inbox[i].code # "ALREADY_IN_ROOM"]_vars

(***************************************************************************)
(* Properties of the peer session controller.                              *)
(***************************************************************************)
\* The tab's handshake is through: its peer transport has been given the
\* remote description and no call of the handshake is waiting at an
\* await, so that the transport can connect.
Negotiated(c) ==
    /\ c.peerConnection # Null
    /\ c.peerConnection[1].remote
    /\ c.steps = <<>>

\* C38: connected means open.  Whenever the controller of a negotiated
\* transport shows the state connected, isChannelOpen is true and a data
\* channel is held; and a step that brings the state to connected is the
\* open event of the data channel, never a state change of the transport
\* that comes before it.
C38_ConnectedMeansOpen ==
    /\ [](\A t \in Tabs :
             Negotiated(client[t]) /\ client[t].peerState = "connected"
                 => client[t].isChannelOpen /\ client[t].dataChannel # Null)
    /\ [][\A t \in Tabs :
             (/\ Negotiated(client'[t])
              /\ client[t].peerState # "connected"
              /\ client'[t].peerState = "connected")
                 => /\ client[t].dataChannel = Some("connecting")
                    /\ client'[t].dataChannel = Some("open")]_vars

(***************************************************************************)
(* One handshake of one tab's controller with the candidates of the other *)
(* end arriving at any moment of it.  The tab has created the room (it    *)
(* will send the offer and be given the answer) or joined it (it will be  *)
(* given the offer).  The server's frames are delivered as they are       *)
(* written; every awaited call may succeed or fail.                        *)
(***************************************************************************)
MaxCandidates == 4      \* candidates the other end sends in one handshake

\* The candidate lines of the other end, in the order it finds them.
CandidateTable ==
    <<"candidate:1 1 udp 2122260223 192.0.2.7 50001 typ host",
      "candidate:2 1 udp 1686052607 198.51.100.7 50002 typ srflx",
      "candidate:3 1 udp 41885439 203.0.113.7 50003 typ relay",
      "candidate:4 1 tcp 1518280447 192.0.2.7 9 typ host tcptype active",
      "candidate:5 1 udp 2122194687 192.0.2.8 50005 typ host",
      "candidate:6 1 udp 1686052351 198.51.100.8 50006 typ srflx">>

\* What the server may relay to a tab in state c: the frame that starts
\* the tab's part of the handshake, the answer to the offer the tab has
\* sent, and the next candidate of the other end.
IceFrames(c) ==
    LET fresh == c.peerConnection = Null /\ c.steps = <<>> /\ c.errors = <<>>
    IN  {PeerJoinedMsg : x \in {n \in {1} : fresh /\ c.isInitiator}}
        \cup {RelayedSdpMsg("offer", Some("v=0 o=- 46117317 2 IN IP4 127.0.0.1")) :
                 x \in {n \in {1} : fresh /\ ~c.isInitiator}}
        \cup {RelayedSdpMsg("answer", Some("v=0 o=- 46117317 2 IN IP4 127.0.0.1")) :
                 x \in {n \in {1} : /\ c.isInitiator /\ c.peerConnection # Null
                                    /\ ~c.peerConnection[1].remote
                                    /\ c.steps = <<>> /\ c.errors = <<>>}}
        \cup {RelayedIceMsg(Some(CandidateTable[Len(c.heard) + 1]), Some("0"), Some(0)) :
                 x \in {n \in {1} : Len(c.heard) < MaxCandidates}}

\* The message event of a frame the server relays.
IceFrame(t) ==
    /\ client[t].socket = "OPEN"
    /\ \E message \in IceFrames(client[t]) :
          CommitClient(t, onmessage(client[t], message))
    /\ IdleOutsideClient

IceInit ==
    /\ \E first \in {RoomCreatedMsg(generateRoomId(UuidTable[1])),
                     RoomJoinedMsg(generateRoomId(UuidTable[1]), FALSE)} :
          client = [t \in Tabs |-> IF t = 1 THEN onmessage(Connected, first)
                                   ELSE NewClient]
    /\ ServerIdle
    /\ CryptoIdle
    /\ EngineIdle

IceNext == \E t \in {1} : IceFrame(t) \/ Resolve(t) \/ Reject(t)

IceSpec == IceInit /\ [][IceNext]_vars

\* The places of candidate x in the sequence q.
Places(q, x) == {i \in 1..Len(q) : q[i] = x}

\* The controller has no remote description to apply candidates to.
NoRemoteDescription(c) ==
    c.peerConnection = Null \/ ~c.peerConnection[1].remote

\* C31: ICE candidate buffering.  A candidate that arrives while no remote
\* description is set goes to the end of the pending buffer and is not
\* given to the transport, and nothing is given to the transport before
\* the remote description is set; a candidate that arrives later is given
\* to the transport at once and the buffer is left alone.  The drain gives
\* the buffered candidates to the transport in their order of arrival, and
\* once the handshake is through the buffer is empty and every candidate
\* that has arrived has been given to the transport exactly once, and
\* nothing else has.
C31_IceBuffering ==
    /\ [](\A t \in Tabs :
             LET c == client[t] IN
             /\ NoRemoteDescription(c) => c.applied = <<>>
             /\ \A i, j \in 1..Len(c.applied) :
                   i < j =>
                      \A p \in Places(c.pendingCandidates, c.applied[i]) :
                         \A q \in Places(c.pendingCandidates, c.applied[j]) : p < q
             /\ Negotiated(c) =>
                   /\ c.pendingCandidates = <<>>
                   /\ \A i \in 1..Len(c.heard) :
                         Cardinality(Places(c.applied, c.heard[i])) = 1
                   /\ Len(c.applied) = Len(c.heard))
    /\ [][\A t \in Tabs :
             LET c == client[t]
                 d == client'[t]
             IN Len(d.heard) = Len(c.heard) + 1 =>
                   LET x == d.heard[Len(d.heard)] IN
                   IF NoRemoteDescription(c)
                   THEN /\ d.pendingCandidates = Append(c.pendingCandidates, x)
                        /\ d.applied = c.applied
                   ELSE /\ d.applied = Append(c.applied, x)
                        /\ d.pendingCandidates = c.pendingCandidates]_vars

\* The handshake is through and all the candidates have arrived, some of
\* them before the remote description was set and one while the drain was
\* waiting for the transport, which got it before a buffered one.
C31_Witness ==
    /\ Negotiated(client[1])
    /\ Len(client[1].heard) = MaxCandidates
    /\ Len(client[1].applied) = MaxCandidates
    /\ client[1].applied # client[1].heard

(***************************************************************************)
(* Properties of the sending side of the file-transfer engine.            *)
(***************************************************************************)
\* src/unnamed/part_002:195-199, the catch block of sendNextChunk:
\* chunk.arrayBuffer() or encryptChunk() has rejected for pending call i.
chunkFailed(p, e, i) ==
    [onError(e) EXCEPT !.encrypting = RemoveAt(@, i),
                       !.currentSendFile = Null]

\* Reading the chunk from the file or encrypting it fails.
ChunkFails(p) ==
    /\ \E i \in 1..Len(eng[p].encrypting) :
          CommitEngine(p, chunkFailed(p, eng[p], i), channel)
    /\ UNCHANGED <<disk, nextKey>>
    /\ IdleOutsideEngine

\* One session over a channel that stays open, with views that stay
\* mounted, in which any read or encryption of a chunk may fail.
SendFailNext ==
    \E p \in Peers :
        \/ Mount(p) \/ Drain(p) \/ Dispatch(p) \/ LowWater(p)
        \/ KeyGenerated(p) \/ KeyImported(p)
        \/ ChunkRead(p) \/ ChunkEncrypted(p) \/ ChunkDecrypted(p)
        \/ ChunkTimer(p) \/ FileTimer(p)
        \/ SendFiles(p) \/ AcceptFile(p) \/ RejectFile(p)
        \/ ChunkFails(p)

SendFailSpec == EngineInit /\ [][SendFailNext]_vars

\* A pending read or encryption of p has ended without a chunk going out.
FailedChunk(p) ==
    /\ Len(eng'[p].encrypting) < Len(eng[p].encrypting)
    /\ eng'[p].chunkTimers = eng[p].chunkTimers

\* C32: send-side chunk failure.  When the read or the encryption of a
\* chunk fails, the sender reports one error, has no current file any
\* more and sends nothing in that step (the file is aborted), and its
\* outbound queue is empty, so that no queued file is left to be offered.
C32_SendFailure ==
    [][\A p \in Peers :
          FailedChunk(p) =>
              /\ eng'[p].errors = eng[p].errors + 1
              /\ eng'[p].currentSendFile = Null
              /\ channel'[p].txLog = channel[p].txLog
              /\ eng'[p].sendQueue = <<>>]_vars

\* C35: single in-flight send and batch completion.  A peer starts a file
\* (makes it the current one and offers it) only when it has no current
\* file, so that one file at most is offered or streaming; and
\* onTransferComplete is called only with the outbound queue empty and no
\* current file, whenever sendFiles is called.
C35_SingleInFlight ==
    [][\A p \in Peers :
          /\ (/\ eng'[p].currentSendFile # Null
              /\ eng'[p].currentSendFile # eng[p].currentSendFile)
                 => eng[p].currentSendFile = Null
          /\ eng'[p].completes > eng[p].completes
                 => /\ eng'[p].sendQueue = <<>>
                    /\ eng'[p].currentSendFile = Null]_vars

(***************************************************************************)
(* Properties of the receiving side of the file-transfer engine.          *)
(***************************************************************************)
\* One receiving engine and a remote end that may send it anything: the
\* joiner's view is mounted and it has imported the key the initiator
\* sent; the remote end offers a file of two chunks or an empty one, sends
\* chunks of the first with an index up to MaxIndex, sealed under the
\* session's key or under another one, and FILE_COMPLETE, MaxFrames
\* messages in all and in any order.
MaxFrames == 3          \* messages the remote end sends
MaxIndex == 2           \* the largest chunk index it uses

RemoteFile == [id |-> 1, size |-> CHUNK_SIZE + 1]

RemoteChunk(index, key) ==
    encodeEncryptedChunk(index,
                         Encrypt(key, Slice(RemoteFile, (index % 2) * CHUNK_SIZE,
                                            (index % 2) * CHUNK_SIZE + CHUNK_SIZE)),
                         RemoteFile.id)

RemoteFrames ==
    {FileInfoMsg(FileInfoOf(RemoteFile)),
     FileInfoMsg(FileInfoOf([id |-> 2, size |-> 0])),
     FileCompleteMsg,
     RemoteChunk(0, 2)}
        \cup {RemoteChunk(index, 1) : index \in 0..MaxIndex}

\* src/unnamed/part_002:41-61, 232-245: the engine of a mounted view that
\* holds the key of the session.
Receiving ==
    LET e1 == setDataChannel("joiner", [NewEngine EXCEPT !.view = "mounted"], FALSE)
        e2 == handleEncryptionKey("joiner", e1, 1)
    IN keyImported("joiner", e2, 1)

ReceiveInit ==
    /\ eng = [p \in Peers |-> IF p = "joiner" THEN Receiving ELSE NewEngine]
    /\ channel = [p \in Peers |->
                     [readyState |-> "open", wire |-> <<>>, drained |-> 0,
                      lowPending |-> FALSE, txLog |-> <<>>]]
    /\ disk = [p \in Peers |-> <<>>]
    /\ ServerIdle
    /\ CryptoIdle
    /\ ClientIdle

\* The message event of a message of the remote end
\* (src/unnamed/part_002:54-56); the message is noted in the remote end's
\* log.
RemoteFrame(q) ==
    LET p == Other(q) IN
    /\ Len(channel[p].txLog) < MaxFrames
    /\ \E msg \in RemoteFrames :
          CommitEngine(q, handleChannelMessage(q, eng[q], msg),
                       [channel EXCEPT ![p].txLog =
                           Append(@, [msg |-> msg, ready |-> TRUE, cur |-> Null])])
    /\ UNCHANGED <<disk, nextKey>>
    /\ IdleOutsideEngine

ReceiveNext ==
    \E p \in {"joiner"} :
        RemoteFrame(p) \/ AcceptFile(p) \/ RejectFile(p) \/ ChunkDecrypted(p)

ReceiveSpec == ReceiveInit /\ [][ReceiveNext]_vars

\* The entries of the received-chunk array that are set.
ChunkIndexes(f) == {c.index : c \in f.receivedChunks}

\* C33: out-of-range chunk index.  The received-chunk array of a record
\* has entries only at the indexes 0..totalChunks-1, and when the
\* decryption of a chunk whose index is outside them settles, an error is
\* reported and the table is left as it was.
C33_IndexInRange ==
    /\ [](\A p \in Peers : \A n \in 1..Len(eng[p].receivingFiles) :
             LET f == eng[p].receivingFiles[n]
             IN ChunkIndexes(f) \subseteq 0..(f.totalChunks - 1))
    /\ [][\A p \in Peers : \A i \in 1..Len(eng[p].decrypting) :
             LET d == eng[p].decrypting[i] IN
             (/\ eng'[p].decrypting = RemoveAt(eng[p].decrypting, i)
              /\ HasFile(eng[p].receivingFiles, d.fileId)
              /\ d.chunkIndex >= GetFile(eng[p].receivingFiles, d.fileId).totalChunks)
                 => /\ eng'[p].errors = eng[p].errors + 1
                    /\ eng'[p].receivingFiles = eng[p].receivingFiles]_vars

\* C40: the receiver's reassembly table.  In every state a peer's table
\* holds at most one record, and it holds a record exactly when
\* currentReceiveFileId is set, the record being the one of that id.
C40_ReassemblyTable ==
    \A p \in Peers :
        /\ Len(eng[p].receivingFiles) <= 1
        /\ eng[p].receivingFiles # <<>> <=> eng[p].currentReceiveFileId # Null
        /\ eng[p].currentReceiveFileId # Null
              => HasFile(eng[p].receivingFiles, eng[p].currentReceiveFileId[1])

\* The record of file id with the chunk of d stored: the array entry at
\* d's index is d's plaintext and the byte count is up by its length.
Stored(before_, after, d) ==
    /\ [index |-> d.chunkIndex, plain |-> d.plain] \in after.receivedChunks
    /\ {c \in after.receivedChunks : c.index # d.chunkIndex}
          = {c \in before_.receivedChunks : c.index # d.chunkIndex}
    /\ after.bytesReceived = before_.bytesReceived + d.plain.len

====
